---- MODULE Spec2Model ----
(***************************************************************************)
(* A model of the quantum computer simulator `quantum`: classical          *)
(* registers (registers.rs), kets (ket.rs), matrices and gates (matrix.rs, *)
(* gate.rs, gates.rs), the quantum register and the QuantumComputer facade *)
(* (registers.rs, computer.rs).                                            *)
(*                                                                         *)
(* Numbers.  f64 values are modelled in fixed point, as integers counting  *)
(* quarters (1.0 is 4, 0.5 is 2, 0.25 is 1).  Every gate of GateLib has    *)
(* entries in {0, +-0.5, +-1, +-i} and every ket reachable from a basis    *)
(* vector under them has amplitudes in {0, +-0.5, +-1, +-i, ...}: all      *)
(* products and sums are dyadic rationals that f64 represents exactly, so  *)
(* the fixed point arithmetic is the f64 arithmetic (FixedPointExact       *)
(* checks that no product loses a digit).                                  *)
(* u32 values are modelled as two 16-bit limbs <<hi, lo>>, so that the     *)
(* whole 32-bit range and its overflow are represented.                    *)
(* A call that panics is modelled as a step that keeps the assignments     *)
(* made before the panic and records last.panicked = TRUE.                 *)
(***************************************************************************)
EXTENDS Integers, Sequences, FiniteSets, TLC

\* matrix.rs:10  pub const MAX_SIZE: usize = 32;
MAX_SIZE == 32

\* matrix.rs:12  const MAX_ELEMENTS: usize = MAX_SIZE * MAX_SIZE;
MAX_ELEMENTS == MAX_SIZE * MAX_SIZE

\* The width of the u32 type of ClassicalRegister::from_state and state().
U32_BITS == 32

\* Bounds of the model.
\* Widths of the QuantumComputer and QuantumRegister under test: 0..MaxWidth.
MaxWidth == 3

\* Widths of the computer in a single run initialize, apply*, collapse,
\* value: 0..MaxRunWidth.
MaxRunWidth == 5

\* ClassicalRegister round trips are enumerated in full for widths
\* 0..MaxRoundTripWidth.
MaxRoundTripWidth == 10

\* Widths of the computers the library gates are tried on: 0..MaxGateWidth.
MaxGateWidth == 3

\* Sizes of the matrices used on their own: 0..MaxMatrixSize.
MaxMatrixSize == 3

VARIABLES
    state,            \* QuantumComputer.state
    width,            \* QuantumComputer.width
    register,         \* QuantumComputer.register: [width, collapsed, ket]
    classical,        \* QuantumComputer.classical: the bits of a ClassicalRegister
    overflow_checks,  \* the build: TRUE when integer overflow panics (debug), FALSE when it wraps (release)
    last,             \* the most recent call: [op, panicked, ret]
    the_matrix,       \* a Matrix used on its own (SpecMatrix): [size, elements]; <<>> elsewhere
    run               \* history: <<v, n>> while the register is the one initialize(v) built
                      \* and only identity gates were applied to it since (n = 1 once one
                      \* was, else 0); <<>> otherwise.  Under SpecClassical: the input
                      \* the ClassicalRegister is built from, <<"state", s>> or <<"bits", b>>

vars == <<state, width, register, classical, overflow_checks, last, the_matrix, run>>

----------------------------------------------------------------------------
(* f64 in fixed point (quarters) and Complex, complex.rs *)

\* The f64 literal num/den.
Real(num, den) == (num * 4) \div den

\* The f64 product a * b.
FxMul(a, b) == (a * b) \div 4

\* Whether the f64 product a * b is represented without loss.
FxExact(a, b) == (a * b) % 4 = 0

Complex_new(re, im) == <<re, im>>

Complex_zero == Complex_new(Real(0, 1), Real(0, 1))

Complex_one == Complex_new(Real(1, 1), Real(0, 1))

Complex_i == Complex_new(Real(0, 1), Real(1, 1))

Complex_norm_sqr(z) == FxMul(z[1], z[1]) + FxMul(z[2], z[2])

Complex_add(a, b) == Complex_new(a[1] + b[1], a[2] + b[2])

Complex_mul(a, b) ==
    Complex_new(FxMul(a[1], b[1]) - FxMul(a[2], b[2]),
                FxMul(a[1], b[2]) + FxMul(a[2], b[1]))

Complex_neg(a) == Complex_new(0 - a[1], 0 - a[2])

\* Complex::approx_eq: both differences below the threshold 10^-12; the
\* values are multiples of a quarter, so a difference below it is 0.
Complex_approx_eq(self, other) == self[1] - other[1] = 0 /\ self[2] - other[2] = 0

----------------------------------------------------------------------------
(* u32 arithmetic on two 16-bit limbs <<hi, lo>> *)

Limb == 2^16

U32(n) == <<n \div Limb, n % Limb>>

U32_lt(a, b) == a[1] < b[1] \/ (a[1] = b[1] /\ a[2] < b[2])

U32_le(a, b) == a = b \/ U32_lt(a, b)

\* a - b for b <= a.
U32_sub(a, b) ==
    IF a[2] >= b[2] THEN <<a[1] - b[1], a[2] - b[2]>>
    ELSE <<a[1] - b[1] - 1, a[2] + Limb - b[2]>>

\* a + b: the wrapped sum and whether it overflowed.
U32_add(a, b) ==
    LET lo == a[2] + b[2]
        hi == a[1] + b[1] + (lo \div Limb)
    IN  [overflow |-> hi >= Limb, value |-> <<hi % Limb, lo % Limb>>]

\* 2u32.pow(exp): the wrapped power and whether it overflowed.
U32_pow2(exp) ==
    IF exp >= U32_BITS THEN [overflow |-> TRUE, value |-> <<0, 0>>]
    ELSE IF exp >= 16 THEN [overflow |-> FALSE, value |-> <<2^(exp - 16), 0>>]
    ELSE [overflow |-> FALSE, value |-> <<0, 2^exp>>]

\* `x as usize` for a u32 (usize has 64 bits); used where the value is an index.
U32_as_usize(a) == a[1] * Limb + a[2]

\* The position of the highest set bit of a, for a > 0: floor(log2(a)).
U32_log2(a) ==
    IF a[1] > 0 THEN 16 + (CHOOSE k \in 0..15 : 2^k <= a[1] /\ a[1] < 2^(k + 1))
    ELSE CHOOSE k \in 0..15 : 2^k <= a[2] /\ a[2] < 2^(k + 1)

\* u32::is_power_of_two
U32_is_power_of_two(a) == a # <<0, 0>> /\ a = U32_pow2(U32_log2(a)).value

\* u32::trailing_zeros, of a power of two
U32_trailing_zeros(a) == U32_log2(a)

\* u32::checked_next_power_of_two: the least power of two >= a, or None
\* when it is not a u32.
U32_checked_next_power_of_two(a) ==
    IF a = <<0, 0>> THEN [none |-> FALSE, value |-> <<0, 1>>]
    ELSE IF U32_is_power_of_two(a) THEN [none |-> FALSE, value |-> a]
    ELSE IF U32_log2(a) + 1 >= U32_BITS THEN [none |-> TRUE, value |-> <<0, 0>>]
    ELSE [none |-> FALSE, value |-> U32_pow2(U32_log2(a) + 1).value]

----------------------------------------------------------------------------
(* Complex::pow, complex.rs:62-93 *)

\* The loop `for _ in 0..n { x *= z }`.
RECURSIVE pow_multiply_loop(_, _, _)
pow_multiply_loop(z, x, n) ==
    IF n = 0 THEN x ELSE pow_multiply_loop(z, Complex_mul(x, z), n - 1)

\* The loop `for _ in 0..l { x *= x }` (x is a Complex, of two parts).
RECURSIVE pow_square_loop(_, _)
pow_square_loop(x, l) ==
    IF l = 0 \/ Len(x) # 2 THEN x ELSE pow_square_loop(Complex_mul(x, x), l - 1)

\* The split of n >= 5 in pow: l = floor(log2(n)) and r = n - 2^l; `none`
\* where checked_next_power_of_two gives None, which pow unwraps.
pow_split(n) ==
    IF U32_is_power_of_two(n)
    THEN [none |-> FALSE, l |-> U32_trailing_zeros(n), r |-> <<0, 0>>]
    ELSE LET next == U32_checked_next_power_of_two(n)
         IN  IF next.none THEN [none |-> TRUE, l |-> 0, r |-> <<0, 0>>]
             ELSE LET p == U32_trailing_zeros(next.value) - 1
                  IN  [none |-> FALSE, l |-> p, r |-> U32_sub(n, U32_pow2(p).value)]

\* The exponents of the nested calls of pow, outermost first: pow(n) with
\* n >= 5 calls self.pow(r) for the r of its split, and so on down to the
\* first exponent below 5, or to the exponent whose split fails.  `calls`
\* holds the exponents before n, at most U32_BITS of them.
RECURSIVE pow_calls(_, _)
pow_calls(n, calls) ==
    IF Len(calls) > U32_BITS \/ U32_lt(n, <<0, 5>>) \/ pow_split(n).none
    THEN Append(calls, n)
    ELSE pow_calls(pow_split(n).r, Append(calls, n))

\* The returns of the nested calls, innermost first: the call of exponent
\* calls[k] returns `rest` * x, where rest is what its call self.pow(r)
\* returned and x is self squared l times.
RECURSIVE pow_returns(_, _, _, _)
pow_returns(self, calls, k, rest) ==
    IF k = 0 \/ Len(rest) # 2 THEN rest
    ELSE pow_returns(self, calls, k - 1,
                     Complex_mul(rest, pow_square_loop(self, pow_split(calls[k]).l)))

\* Complex::pow(n)
Complex_pow(self, n) ==
    LET calls == pow_calls(n, <<>>)
        innermost == calls[Len(calls)]
    IN  IF innermost = <<0, 0>>
        THEN [panicked |-> FALSE,
              value |-> pow_returns(self, calls, Len(calls) - 1, Complex_one)]
        ELSE IF U32_lt(innermost, <<0, 5>>)
        THEN [panicked |-> FALSE,
              value |-> pow_returns(self, calls, Len(calls) - 1,
                                    pow_multiply_loop(self, Complex_one, innermost[2]))]
        ELSE [panicked |-> TRUE, value |-> Complex_zero]

----------------------------------------------------------------------------
(* ClassicalRegister, registers.rs:164-267 *)

\* ClassicalRegister::new: panics unless every bit is 0 or 1.
ClassicalRegister_new(bits) ==
    [panicked |-> \E k \in 1..Len(bits) : bits[k] \notin {0, 1},
     bits |-> bits]

\* from_state_loop with each bit pushed at the back of the vector instead
\* of inserted at its front.
RECURSIVE from_state_loop_push(_, _, _, _, _)
from_state_loop_push(oc, w, i, remaining_state, bits) ==
    IF i >= w \/ Len(bits) # i THEN ClassicalRegister_new(bits)
    ELSE LET pos == w - i - 1
             value == U32_pow2(pos)
         IN  IF value.overflow /\ oc THEN [panicked |-> TRUE, bits |-> bits]
             ELSE IF U32_le(value.value, remaining_state)
                  THEN from_state_loop_push(oc, w, i + 1,
                                            U32_sub(remaining_state, value.value),
                                            bits \o <<1>>)
                  ELSE from_state_loop_push(oc, w, i + 1, remaining_state, bits \o <<0>>)

\* The loop of from_state: iteration i of 0..width, with the i bits built so far.
RECURSIVE from_state_loop(_, _, _, _, _)
from_state_loop(oc, w, i, remaining_state, bits) ==
    IF i >= w \/ Len(bits) # i THEN ClassicalRegister_new(bits)
    ELSE LET pos == w - i - 1
             value == U32_pow2(pos)
         IN  IF value.overflow /\ oc THEN [panicked |-> TRUE, bits |-> bits]
             ELSE IF U32_le(value.value, remaining_state)
                  THEN from_state_loop(oc, w, i + 1,
                                       U32_sub(remaining_state, value.value),
                                       <<1>> \o bits)
                  ELSE from_state_loop(oc, w, i + 1, remaining_state, <<0>> \o bits)

\* ClassicalRegister::from_state(width, state); oc is the build's overflow checking.
ClassicalRegister_from_state(oc, w, s) ==
    LET limit == U32_pow2(w)
    IN  IF limit.overflow /\ oc THEN [panicked |-> TRUE, bits |-> <<>>]
        ELSE IF ~U32_lt(s, limit.value) THEN [panicked |-> TRUE, bits |-> <<>>]
        ELSE from_state_loop(oc, w, 0, s, <<>>)

ClassicalRegister_from_int(oc, w, int) == ClassicalRegister_from_state(oc, w, int)

ClassicalRegister_zeroed(w) == ClassicalRegister_new([k \in 1..w |-> 0])

ClassicalRegister_width(bits) == Len(bits)

\* The loop of state(): position pos of the bits (0-based), with the sum so far.
RECURSIVE state_loop(_, _, _, _)
state_loop(oc, bits, pos, acc) ==
    IF pos >= Len(bits) THEN [panicked |-> FALSE, value |-> acc]
    ELSE IF bits[pos + 1] = 0 THEN state_loop(oc, bits, pos + 1, acc)
    ELSE LET p == U32_pow2(pos)
             sum == U32_add(acc, p.value)
         IN  IF (p.overflow \/ sum.overflow) /\ oc
             THEN [panicked |-> TRUE, value |-> acc]
             ELSE state_loop(oc, bits, pos + 1, sum.value)

\* state() with the rightmost bit least significant.
ClassicalRegister_state_msb(oc, bits) ==
    state_loop(oc, [k \in 1..Len(bits) |-> bits[Len(bits) + 1 - k]], 0, <<0, 0>>)

\* ClassicalRegister::state()
ClassicalRegister_state(oc, bits) == state_loop(oc, bits, 0, <<0, 0>>)

ClassicalRegister_to_int(oc, bits) == ClassicalRegister_state(oc, bits)

----------------------------------------------------------------------------
(* Matrix, matrix.rs *)

\* The place of entry (i, j) in the flat buffer.
Matrix_index(i, j) == i * MAX_SIZE + j

\* The assertion of Matrix::new, new_from_elements and identity on the size.
Matrix_new_asserts(size) == size <= MAX_SIZE

\* Matrix::new(size), for size <= MAX_SIZE (the constructor panics otherwise).
Matrix_new(size) ==
    [size |-> size, elements |-> [n \in 0..(MAX_ELEMENTS - 1) |-> Complex_zero]]

\* Whether the index expression of get(i, j) and set(i, j, value) is
\* outside the buffer of MAX_ELEMENTS elements, where indexing panics.
Matrix_index_panics(i, j) == Matrix_index(i, j) >= MAX_ELEMENTS

Matrix_get(m, i, j) == m.elements[Matrix_index(i, j)]

Matrix_set(m, i, j, value) == [m EXCEPT !.elements[Matrix_index(i, j)] = value]

\* identity(size) with the last entry of the diagonal left zero.
Matrix_identity_short(size) ==
    [size |-> size,
     elements |-> [n \in 0..(MAX_ELEMENTS - 1) |->
                      IF n \div MAX_SIZE = n % MAX_SIZE /\ n \div MAX_SIZE < size - 1
                      THEN Complex_one ELSE Complex_zero]]

\* identity(size) with the diagonal running through the whole buffer.
Matrix_identity_full(size) ==
    [size |-> size,
     elements |-> [n \in 0..(MAX_ELEMENTS - 1) |->
                      IF n \div MAX_SIZE = n % MAX_SIZE THEN Complex_one ELSE Complex_zero]]

\* Matrix::identity(size)
Matrix_identity(size) ==
    [size |-> size,
     elements |-> [n \in 0..(MAX_ELEMENTS - 1) |->
                      IF n \div MAX_SIZE = n % MAX_SIZE /\ n \div MAX_SIZE < size
                      THEN Complex_one ELSE Complex_zero]]

\* The loop of new_from_elements: element n (0-based) of the list.
RECURSIVE new_from_elements_loop(_, _, _, _)
new_from_elements_loop(m, size, elements, n) ==
    IF n >= Len(elements) \/ m.size # size THEN m
    ELSE new_from_elements_loop(Matrix_set(m, n \div size, n % size, elements[n + 1]),
                                size, elements, n + 1)

\* Matrix::new_from_elements(size, elements), for size * size = elements.len().
Matrix_new_from_elements(size, elements) ==
    new_from_elements_loop(Matrix_new(size), size, elements, 0)

\* The macro m_real!: a matrix of reals, given row by row.
m_real(size, reals) ==
    Matrix_new_from_elements(size, [k \in 1..Len(reals) |-> Complex_new(reals[k], Real(0, 1))])

\* The loops of embed: entry (x, y) of other, in the order the code walks them.
RECURSIVE embed_loop(_, _, _, _, _, _)
embed_loop(self, other, i, j, x, y) ==
    IF x >= other.size \/ self.size < other.size THEN self
    ELSE IF y >= other.size THEN embed_loop(self, other, i, j, x + 1, 0)
    ELSE embed_loop(Matrix_set(self, i + x, i + y, Matrix_get(other, x, y)),
                    other, i, j, x, y + 1)

\* Matrix::embed(other, i, j): panics when the block does not fit.
Matrix_embed(self, other, i, j) ==
    IF i + other.size > self.size \/ j + other.size > self.size
    THEN [panicked |-> TRUE, matrix |-> self]
    ELSE [panicked |-> FALSE, matrix |-> embed_loop(self, other, i, j, 0, 0)]

\* The inner loop of matrix x vector: val (a Complex, of two parts) after
\* the terms k' < k of row i.
RECURSIVE mul_vector_row(_, _, _, _, _)
mul_vector_row(m, rhs, i, k, val) ==
    IF k >= m.size \/ Len(val) # 2 THEN val
    ELSE mul_vector_row(m, rhs, i, k + 1,
                        Complex_add(val, Complex_mul(Matrix_get(m, i, k), rhs[k])))

\* Mul<&Vector> for &Matrix: panics when the vector's tail is not zero.
Matrix_mul_vector(m, rhs) ==
    IF \E i \in m.size..(MAX_SIZE - 1) : rhs[i] # Complex_zero
    THEN [panicked |-> TRUE, vector |-> rhs]
    ELSE [panicked |-> FALSE,
          vector |-> [i \in 0..(MAX_SIZE - 1) |->
                         IF i < m.size
                         THEN mul_vector_row(m, rhs, i, 0, Complex_zero)
                         ELSE Complex_zero]]

\* sorted.sort(): the k-th (1-based) smallest element of the vector.
SortedAt(permutation, k) ==
    CHOOSE v \in {permutation[x] : x \in 1..Len(permutation)} :
        /\ Cardinality({x \in 1..Len(permutation) : permutation[x] < v}) < k
        /\ k <= Cardinality({x \in 1..Len(permutation) : permutation[x] <= v})

\* permutation_valid without the sort: every index is below the length.
permutation_valid_range(permutation) ==
    \A k \in 1..Len(permutation) : permutation[k] < Len(permutation)

\* Matrix::permutation_valid(permutation): the sorted vector is 0, 1, 2, ...
permutation_valid(permutation) ==
    \A k \in 1..Len(permutation) : k - 1 = SortedAt(permutation, k)

\* The inner loop of permute_rows: the entries j, j + 1, ... of row source_i
\* of self are set in row target_i of m (m = Matrix::new(self.size), so the
\* two sizes are one).
RECURSIVE permute_rows_inner(_, _, _, _, _)
permute_rows_inner(self, m, target_i, source_i, j) ==
    IF j >= self.size \/ m.size # self.size THEN m
    ELSE permute_rows_inner(self, Matrix_set(m, target_i, j, Matrix_get(self, source_i, j)),
                            target_i, source_i, j + 1)

\* The loops of permute_rows with source and target exchanged: row
\* permutation[source_i] of self goes to row source_i of m.
RECURSIVE permute_rows_loop_inverse(_, _, _, _)
permute_rows_loop_inverse(self, m, permutation, source_i) ==
    IF source_i >= Len(permutation) \/ m.size # self.size THEN m
    ELSE permute_rows_loop_inverse(
             self, permute_rows_inner(self, m, source_i, permutation[source_i + 1], 0),
             permutation, source_i + 1)

\* The outer loop of permute_rows: for source_i, source_i + 1, ... row
\* source_i of self goes to row permutation[source_i] of m.
RECURSIVE permute_rows_loop(_, _, _, _)
permute_rows_loop(self, m, permutation, source_i) ==
    IF source_i >= Len(permutation) \/ m.size # self.size THEN m
    ELSE permute_rows_loop(
             self, permute_rows_inner(self, m, permutation[source_i + 1], source_i, 0),
             permutation, source_i + 1)

\* Matrix::permute_rows(permutation): a new matrix; self is not changed.
Matrix_permute_rows(self, permutation) ==
    IF self.size # Len(permutation) THEN [panicked |-> TRUE, matrix |-> <<>>]
    ELSE IF ~permutation_valid(permutation) THEN [panicked |-> TRUE, matrix |-> <<>>]
    ELSE [panicked |-> FALSE,
          matrix |-> permute_rows_loop(self, Matrix_new(self.size), permutation, 0)]

\* The inner loop of permute_columns: the entries i, i + 1, ... of column
\* source_j of self are set in column target_j of m.
RECURSIVE permute_columns_inner(_, _, _, _, _)
permute_columns_inner(self, m, target_j, source_j, i) ==
    IF i >= self.size \/ m.size # self.size THEN m
    ELSE permute_columns_inner(self, Matrix_set(m, i, target_j, Matrix_get(self, i, source_j)),
                               target_j, source_j, i + 1)

\* The outer loop of permute_columns: for source_j, source_j + 1, ... column
\* source_j of self goes to column permutation[source_j] of m.
RECURSIVE permute_columns_loop(_, _, _, _)
permute_columns_loop(self, m, permutation, source_j) ==
    IF source_j >= Len(permutation) \/ m.size # self.size THEN m
    ELSE permute_columns_loop(
             self, permute_columns_inner(self, m, permutation[source_j + 1], source_j, 0),
             permutation, source_j + 1)

\* Matrix::permute_columns(permutation)
Matrix_permute_columns(self, permutation) ==
    IF self.size # Len(permutation) THEN [panicked |-> TRUE, matrix |-> <<>>]
    ELSE IF ~permutation_valid(permutation) THEN [panicked |-> TRUE, matrix |-> <<>>]
    ELSE [panicked |-> FALSE,
          matrix |-> permute_columns_loop(self, Matrix_new(self.size), permutation, 0)]

\* PartialEq for Matrix: panics when the sizes differ, else compares the
\* whole buffer.
Matrix_eq(self, other) ==
    IF self.size # other.size THEN [panicked |-> TRUE, ret |-> FALSE]
    ELSE [panicked |-> FALSE,
          ret |-> \A n \in 0..(MAX_ELEMENTS - 1) : self.elements[n] = other.elements[n]]

\* approx_eq comparing the whole buffers.
Matrix_approx_eq_whole(self, other) ==
    IF self.size # other.size THEN [panicked |-> FALSE, ret |-> FALSE]
    ELSE [panicked |-> FALSE,
          ret |-> \A n \in 0..(MAX_ELEMENTS - 1) :
                     Complex_approx_eq(self.elements[n], other.elements[n])]

\* Matrix::approx_eq: false when the sizes differ, else whether the entries
\* (i, j) with i, j < size are approximately equal.
Matrix_approx_eq(self, other) ==
    IF self.size # other.size THEN [panicked |-> FALSE, ret |-> FALSE]
    ELSE [panicked |-> FALSE,
          ret |-> \A i, j \in 0..(self.size - 1) :
                     Complex_approx_eq(Matrix_get(self, i, j), Matrix_get(other, i, j))]

\* Add for &Matrix: a new matrix whose entries (i, j) with i, j < size are
\* set to the sums.
Matrix_add(self, rhs) ==
    IF self.size # rhs.size THEN [panicked |-> TRUE, matrix |-> <<>>]
    ELSE [panicked |-> FALSE,
          matrix |-> [size |-> self.size,
                      elements |-> [n \in 0..(MAX_ELEMENTS - 1) |->
                          IF n \div MAX_SIZE < self.size /\ n % MAX_SIZE < self.size
                          THEN Complex_add(self.elements[n], rhs.elements[n])
                          ELSE Complex_zero]]]

\* The inner loop of matrix x matrix: val (a Complex, of two parts) after
\* the terms k' < k of entry (i, j).
RECURSIVE mul_entry(_, _, _, _, _, _)
mul_entry(self, rhs, i, j, k, val) ==
    IF k >= self.size \/ Len(val) # 2 THEN val
    ELSE mul_entry(self, rhs, i, j, k + 1,
                   Complex_add(val, Complex_mul(Matrix_get(self, i, k), Matrix_get(rhs, k, j))))

\* Mul for &Matrix with the operands exchanged: rhs x self.
Matrix_mul_swapped(self, rhs) ==
    IF self.size # rhs.size THEN [panicked |-> TRUE, matrix |-> <<>>]
    ELSE [panicked |-> FALSE,
          matrix |-> [size |-> self.size,
                      elements |-> [n \in 0..(MAX_ELEMENTS - 1) |->
                          IF n \div MAX_SIZE < self.size /\ n % MAX_SIZE < self.size
                          THEN mul_entry(rhs, self, n \div MAX_SIZE, n % MAX_SIZE, 0, Complex_zero)
                          ELSE Complex_zero]]]

\* Mul for &Matrix
Matrix_mul(self, rhs) ==
    IF self.size # rhs.size THEN [panicked |-> TRUE, matrix |-> <<>>]
    ELSE [panicked |-> FALSE,
          matrix |-> [size |-> self.size,
                      elements |-> [n \in 0..(MAX_ELEMENTS - 1) |->
                          IF n \div MAX_SIZE < self.size /\ n % MAX_SIZE < self.size
                          THEN mul_entry(self, rhs, n \div MAX_SIZE, n % MAX_SIZE, 0, Complex_zero)
                          ELSE Complex_zero]]]

----------------------------------------------------------------------------
(* Ket, ket.rs *)

\* Ket::size(register_width)
Ket_size(register_width) == 2^register_width

\* Ket::new(size)
Ket_new(size) ==
    [size |-> size, elements |-> [n \in 0..(MAX_SIZE - 1) |-> Complex_zero]]

\* from_classical that writes the one a place further along the buffer.
Ket_from_classical_shifted(oc, bits) ==
    LET ket == Ket_new(Ket_size(ClassicalRegister_width(bits)))
        st == ClassicalRegister_state(oc, bits)
    IN  IF st.panicked THEN [panicked |-> TRUE, ket |-> ket]
        ELSE IF U32_as_usize(st.value) + 1 >= MAX_SIZE THEN [panicked |-> TRUE, ket |-> ket]
        ELSE [panicked |-> FALSE,
              ket |-> [ket EXCEPT !.elements[U32_as_usize(st.value) + 1] = Complex_one]]

\* Ket::from_classical(register): panics when state() does, or when the state
\* is no index of the buffer.
Ket_from_classical(oc, bits) ==
    LET ket == Ket_new(Ket_size(ClassicalRegister_width(bits)))
        st == ClassicalRegister_state(oc, bits)
    IN  IF st.panicked THEN [panicked |-> TRUE, ket |-> ket]
        ELSE IF U32_as_usize(st.value) >= MAX_SIZE THEN [panicked |-> TRUE, ket |-> ket]
        ELSE [panicked |-> FALSE,
              ket |-> [ket EXCEPT !.elements[U32_as_usize(st.value)] = Complex_one]]

\* Ket::apply(gate)
Ket_apply(ket, gate) ==
    LET product == Matrix_mul_vector(gate.matrix, ket.elements)
    IN  [panicked |-> product.panicked,
         ket |-> IF product.panicked THEN ket
                 ELSE [ket EXCEPT !.elements = product.vector]]

\* The sum of the squared magnitudes of the elements n..MAX_SIZE-1.
RECURSIVE sample_space_sum(_, _)
sample_space_sum(ket, n) ==
    IF n >= MAX_SIZE THEN 0
    ELSE Complex_norm_sqr(ket.elements[n]) + sample_space_sum(ket, n + 1)

\* Ket::is_valid(): on the values of this model, which are multiples of 0.25,
\* being within 10 ULPs of 1.0 is being 1.0.
Ket_is_valid(ket) == sample_space_sum(ket, 0) = Real(1, 1)

\* Ket::is_classical(), for a valid ket.
Ket_is_classical(ket) ==
    LET ones == {n \in 0..(MAX_SIZE - 1) : ket.elements[n] = Complex_one}
        others == {n \in 0..(MAX_SIZE - 1) :
                      ket.elements[n] # Complex_one /\ ket.elements[n] # Complex_zero}
    IN  Cardinality(ones) = 1 /\ others = {}

----------------------------------------------------------------------------
(* Gate, gate.rs, and the gates of gates.rs *)

\* Gate::new(width, matrix), for Ket::size(width) = matrix.size().
\* The assertion of Gate::new: the matrix has the size of a ket of the width.
Gate_new_asserts(w, matrix) == Ket_size(w) = matrix.size

Gate_new(w, matrix) == [width |-> w, matrix |-> matrix]

\* gates::identity(width)
identity(w) == Gate_new(w, Matrix_identity(Ket_size(w)))

\* gates::hadamard(2), the 4 x 4 matrix of +-0.5.
hadamard2 ==
    LET h == Real(1, 2)
    IN  Gate_new(2, m_real(4, << h,  h,  h,  h,
                                h, -h,  h, -h,
                                h,  h, -h, -h,
                                h, -h, -h,  h >>))

pauli_x == Gate_new(1, m_real(2, << Real(0, 1), Real(1, 1),
                                    Real(1, 1), Real(0, 1) >>))

pauli_y ==
    Gate_new(1, Matrix_new_from_elements(2, << Complex_zero, Complex_neg(Complex_i),
                                               Complex_i, Complex_zero >>))

pauli_z == Gate_new(1, m_real(2, << Real(1, 1), Real(0, 1),
                                    Real(0, 1), Real(-1, 1) >>))

swap ==
    LET o == Real(1, 1)
        z == Real(0, 1)
    IN  Gate_new(2, m_real(4, << o, z, z, z,
                                z, z, o, z,
                                z, o, z, z,
                                z, z, z, o >>))

\* controlled_not with the last row of the matrix left zero.
controlled_not_projecting ==
    LET o == Real(1, 1)
        z == Real(0, 1)
    IN  Gate_new(2, m_real(4, << o, z, z, z,
                                z, o, z, z,
                                z, z, z, o,
                                z, z, z, z >>))

controlled_not ==
    LET o == Real(1, 1)
        z == Real(0, 1)
    IN  Gate_new(2, m_real(4, << o, z, z, z,
                                z, o, z, z,
                                z, z, z, o,
                                z, z, o, z >>))

\* The 2 x 2 matrix `exchange` of toffoli and fredkin.
exchange == m_real(2, << Real(0, 1), Real(1, 1),
                         Real(1, 1), Real(0, 1) >>)

toffoli == Gate_new(3, Matrix_embed(Matrix_identity(8), exchange, 6, 6).matrix)

\* fredkin with the exchange block one place down the diagonal.
fredkin_shifted == Gate_new(3, Matrix_embed(Matrix_identity(8), exchange, 6, 6).matrix)

fredkin == Gate_new(3, Matrix_embed(Matrix_identity(8), exchange, 5, 5).matrix)

\* permute with the columns of the matrix permuted in place of the rows.
Gate_permute_columns(gate, permutation) ==
    LET m == Matrix_permute_columns(gate.matrix, permutation)
    IN  IF m.panicked \/ Ket_size(gate.width) # m.matrix.size
        THEN [panicked |-> TRUE, gate |-> gate]
        ELSE [panicked |-> FALSE, gate |-> Gate_new(gate.width, m.matrix)]

\* Gate::permute(permutation): a new gate; panics when permute_rows does, or
\* when Gate::new finds the matrix of another size than the width asks for.
Gate_permute(gate, permutation) ==
    LET m == Matrix_permute_rows(gate.matrix, permutation)
    IN  IF m.panicked \/ Ket_size(gate.width) # m.matrix.size
        THEN [panicked |-> TRUE, gate |-> gate]
        ELSE [panicked |-> FALSE, gate |-> Gate_new(gate.width, m.matrix)]

\* deutsch_gate that embeds nothing: the identity of width 2 for every f.
deutsch_gate_identity(f) ==
    IF f[1] \notin {0, 1} \/ f[2] \notin {0, 1} THEN [panicked |-> TRUE, gate |-> <<>>]
    ELSE [panicked |-> FALSE, gate |-> Gate_new(2, Matrix_identity(4))]

\* algorithms::deutsch::deutsch_gate(f), with f given as <<f(0), f(1)>>:
\* panics unless f(0) and f(1) are 0 or 1.
deutsch_gate(f) ==
    IF f[1] \notin {0, 1} \/ f[2] \notin {0, 1} THEN [panicked |-> TRUE, gate |-> <<>>]
    ELSE LET m0 == Matrix_identity(4)
             m1 == IF f[1] = 1 THEN Matrix_embed(m0, exchange, 0, 0) ELSE [panicked |-> FALSE, matrix |-> m0]
             m2 == IF f[2] = 1 THEN Matrix_embed(m1.matrix, exchange, 2, 2) ELSE m1
         IN  IF m1.panicked \/ m2.panicked \/ Ket_size(2) # m2.matrix.size
             THEN [panicked |-> TRUE, gate |-> <<>>]
             ELSE [panicked |-> FALSE, gate |-> Gate_new(2, m2.matrix)]

\* A gate that is not unitary, which Gate::new accepts (it checks the size
\* only): the zero matrix of the width.
null_gate(w) == Gate_new(w, Matrix_new(Ket_size(w)))

\* The widths a gate can have: Matrix::new panics for a size above MAX_SIZE.
GateWidths == {w \in 0..(U32_BITS - 2) : Ket_size(w) <= MAX_SIZE}

\* The gates a caller passes to apply, by name and parameter.  hadamard(1)
\* has the entries 1/sqrt(2), which no fixed point represents: it is left out.
GateIds ==
    {<<"identity", w>> : w \in GateWidths} \cup
    {<<"null_gate", w>> : w \in GateWidths} \cup
    {<<"hadamard", 2>>, <<"pauli_x", 1>>, <<"pauli_y", 1>>, <<"pauli_z", 1>>,
     <<"swap", 2>>, <<"controlled_not", 2>>, <<"toffoli", 3>>, <<"fredkin", 3>>}

GateLib ==
    [g \in GateIds |->
        CASE g[1] = "identity" -> identity(g[2])
          [] g[1] = "null_gate" -> null_gate(g[2])
          [] g[1] = "hadamard" -> hadamard2
          [] g[1] = "pauli_x" -> pauli_x
          [] g[1] = "pauli_y" -> pauli_y
          [] g[1] = "pauli_z" -> pauli_z
          [] g[1] = "swap" -> swap
          [] g[1] = "controlled_not" -> controlled_not
          [] g[1] = "toffoli" -> toffoli
          [] g[1] = "fredkin" -> fredkin]

----------------------------------------------------------------------------
(* QuantumRegister, registers.rs:36-112 *)

\* QuantumRegister::new(width, initial)
QuantumRegister_new(oc, w, initial) ==
    LET k == Ket_from_classical(oc, initial)
        panicked == w # ClassicalRegister_width(initial) \/ k.panicked
    IN  [panicked |-> panicked,
         register |-> [width |-> w, collapsed |-> FALSE, ket |-> k.ket]]

\* apply(gate) without the assertion on the width of the gate.
QuantumRegister_apply_any_width(reg, gate) ==
    IF reg.collapsed # FALSE THEN [panicked |-> TRUE, register |-> reg]
    ELSE LET k == Ket_apply(reg.ket, gate)
         IN  [panicked |-> k.panicked, register |-> [reg EXCEPT !.ket = k.ket]]

\* QuantumRegister::apply(gate)
QuantumRegister_apply(reg, gate) ==
    IF reg.collapsed # FALSE THEN [panicked |-> TRUE, register |-> reg]
    ELSE IF reg.width # gate.width THEN [panicked |-> TRUE, register |-> reg]
    ELSE LET k == Ket_apply(reg.ket, gate)
         IN  [panicked |-> k.panicked, register |-> [reg EXCEPT !.ket = k.ket]]

\* collapse_loop with the comparison sample <= cumulative.
RECURSIVE collapse_loop_le(_, _, _, _)
collapse_loop_le(ket, sample, s, cumulative) ==
    IF s >= MAX_SIZE THEN MAX_SIZE
    ELSE LET c == cumulative + Complex_norm_sqr(ket.elements[s])
         IN  IF sample <= c THEN s ELSE collapse_loop_le(ket, sample, s + 1, c)

\* The loop of collapse: the first index s' >= s of the buffer at which
\* sample < cumulative, or MAX_SIZE when the loop ends without one.
RECURSIVE collapse_loop(_, _, _, _)
collapse_loop(ket, sample, s, cumulative) ==
    IF s >= MAX_SIZE THEN MAX_SIZE
    ELSE LET c == cumulative + Complex_norm_sqr(ket.elements[s])
         IN  IF sample < c THEN s ELSE collapse_loop(ket, sample, s + 1, c)

\* collapse() with the flag set only once an index was found.
QuantumRegister_collapse_late(oc, reg, sample) ==
    IF reg.collapsed # FALSE
    THEN [panicked |-> TRUE, register |-> reg, ret |-> <<>>]
    ELSE LET s == collapse_loop(reg.ket, sample, 0, Real(0, 1))
             result == IF s < MAX_SIZE
                       THEN ClassicalRegister_from_state(oc, reg.width, U32(s))
                       ELSE ClassicalRegister_from_state(oc, reg.width, U32(0))
         IN  [panicked |-> result.panicked,
              register |-> IF s < MAX_SIZE THEN [reg EXCEPT !.collapsed = TRUE] ELSE reg,
              ret |-> result.bits]

\* QuantumRegister::collapse(), with the random sample drawn.  The flag is
\* set before the result is computed, so it stays set when from_state panics.
QuantumRegister_collapse(oc, reg, sample) ==
    IF reg.collapsed # FALSE
    THEN [panicked |-> TRUE, register |-> reg, ret |-> <<>>]
    ELSE LET s == collapse_loop(reg.ket, sample, 0, Real(0, 1))
             result == IF s < MAX_SIZE
                       THEN ClassicalRegister_from_state(oc, reg.width, U32(s))
                       ELSE ClassicalRegister_from_state(oc, reg.width, U32(0))
         IN  [panicked |-> result.panicked,
              register |-> [reg EXCEPT !.collapsed = TRUE],
              ret |-> result.bits]

\* QuantumRegister::probabilities(): take(Ket::size(width)) of the buffer.
QuantumRegister_probabilities(reg) ==
    IF reg.collapsed # FALSE THEN [panicked |-> TRUE, ret |-> <<>>]
    ELSE LET n == IF Ket_size(reg.width) < MAX_SIZE THEN Ket_size(reg.width) ELSE MAX_SIZE
         IN  [panicked |-> FALSE,
              ret |-> [k \in 1..n |-> Complex_norm_sqr(reg.ket.elements[k - 1])]]

----------------------------------------------------------------------------
(* QuantumComputer, computer.rs.  Each method is an operator from the      *)
(* computer `self` = [state, width, register, classical] and the arguments *)
(* to [panicked, self, ret]: the computer as the call leaves it.           *)

\* QuantumComputer::new(width)
QuantumComputer_new(oc, w) ==
    [state |-> "Initializing",
     width |-> w,
     register |-> QuantumRegister_new(oc, w, ClassicalRegister_zeroed(w).bits).register,
     classical |-> ClassicalRegister_zeroed(w).bits]

\* initialize(value) without the transition to Running.
QuantumComputer_initialize_no_transition(oc, self, value) ==
    IF self.state # "Initializing" THEN [panicked |-> TRUE, self |-> self, ret |-> <<>>]
    ELSE LET c == ClassicalRegister_from_int(oc, self.width, value)
             q == QuantumRegister_new(oc, self.width, c.bits)
         IN  IF c.panicked \/ q.panicked THEN [panicked |-> TRUE, self |-> self, ret |-> <<>>]
             ELSE [panicked |-> FALSE,
                   self |-> [self EXCEPT !.register = q.register],
                   ret |-> <<>>]

\* initialize(value) with the transition to Running made before the
\* registers are built.
QuantumComputer_initialize_eager(oc, self, value) ==
    IF self.state # "Initializing" THEN [panicked |-> TRUE, self |-> self, ret |-> <<>>]
    ELSE LET c == ClassicalRegister_from_int(oc, self.width, value)
             q == QuantumRegister_new(oc, self.width, c.bits)
         IN  IF c.panicked \/ q.panicked
             THEN [panicked |-> TRUE, self |-> [self EXCEPT !.state = "Running"], ret |-> <<>>]
             ELSE [panicked |-> FALSE,
                   self |-> [self EXCEPT !.register = q.register, !.state = "Running"],
                   ret |-> <<>>]

\* initialize(value) that writes the new ket into the stored register and
\* keeps its collapsed flag.
QuantumComputer_initialize_reusing(oc, self, value) ==
    IF self.state # "Initializing" THEN [panicked |-> TRUE, self |-> self, ret |-> <<>>]
    ELSE LET c == ClassicalRegister_from_int(oc, self.width, value)
             q == QuantumRegister_new(oc, self.width, c.bits)
         IN  IF c.panicked \/ q.panicked THEN [panicked |-> TRUE, self |-> self, ret |-> <<>>]
             ELSE [panicked |-> FALSE,
                   self |-> [self EXCEPT !.register = [q.register EXCEPT
                                                          !.collapsed = self.register.collapsed],
                                         !.state = "Running"],
                   ret |-> <<>>]

\* QuantumComputer::initialize(value)
QuantumComputer_initialize(oc, self, value) ==
    IF self.state # "Initializing" THEN [panicked |-> TRUE, self |-> self, ret |-> <<>>]
    ELSE LET c == ClassicalRegister_from_int(oc, self.width, value)
             q == QuantumRegister_new(oc, self.width, c.bits)
         IN  IF c.panicked \/ q.panicked THEN [panicked |-> TRUE, self |-> self, ret |-> <<>>]
             ELSE [panicked |-> FALSE,
                   self |-> [self EXCEPT !.register = q.register, !.state = "Running"],
                   ret |-> <<>>]

\* QuantumComputer::apply(gate)
QuantumComputer_apply(self, gate) ==
    IF self.state # "Running" THEN [panicked |-> TRUE, self |-> self, ret |-> <<>>]
    ELSE LET r == QuantumRegister_apply(self.register, gate)
         IN  [panicked |-> r.panicked,
              self |-> [self EXCEPT !.register = r.register],
              ret |-> <<>>]

\* collapse() that collapses a copy of the register and keeps the original.
QuantumComputer_collapse_copy(oc, self, sample) ==
    IF self.state # "Running" THEN [panicked |-> TRUE, self |-> self, ret |-> <<>>]
    ELSE LET r == QuantumRegister_collapse(oc, self.register, sample)
         IN  IF r.panicked
             THEN [panicked |-> TRUE, self |-> self, ret |-> <<>>]
             ELSE [panicked |-> FALSE,
                   self |-> [self EXCEPT !.classical = r.ret, !.state = "Collapsed"],
                   ret |-> <<>>]

\* QuantumComputer::collapse(), with the random sample drawn
QuantumComputer_collapse(oc, self, sample) ==
    IF self.state # "Running" THEN [panicked |-> TRUE, self |-> self, ret |-> <<>>]
    ELSE LET r == QuantumRegister_collapse(oc, self.register, sample)
         IN  IF r.panicked
             THEN [panicked |-> TRUE,
                   self |-> [self EXCEPT !.register = r.register],
                   ret |-> <<>>]
             ELSE [panicked |-> FALSE,
                   self |-> [self EXCEPT !.register = r.register,
                                         !.classical = r.ret,
                                         !.state = "Collapsed"],
                   ret |-> <<>>]

\* reset() that also clears the classical register.
QuantumComputer_reset_clearing(self) ==
    [panicked |-> FALSE,
     self |-> [self EXCEPT !.state = "Initializing",
                           !.classical = ClassicalRegister_zeroed(self.width).bits],
     ret |-> <<>>]

\* QuantumComputer::reset()
QuantumComputer_reset(self) ==
    [panicked |-> FALSE, self |-> [self EXCEPT !.state = "Initializing"], ret |-> <<>>]

\* value() without the assertion on the state.
QuantumComputer_value_unguarded(oc, self) ==
    LET v == ClassicalRegister_to_int(oc, self.classical)
    IN  [panicked |-> v.panicked, self |-> self,
         ret |-> IF v.panicked THEN <<>> ELSE v.value]

\* QuantumComputer::value()
QuantumComputer_value(oc, self) ==
    IF self.state # "Collapsed" THEN [panicked |-> TRUE, self |-> self, ret |-> <<>>]
    ELSE LET v == ClassicalRegister_to_int(oc, self.classical)
         IN  [panicked |-> v.panicked, self |-> self,
              ret |-> IF v.panicked THEN <<>> ELSE v.value]

\* QuantumComputer::probabilities()
QuantumComputer_probabilities(self) ==
    IF self.state # "Running" THEN [panicked |-> TRUE, self |-> self, ret |-> <<>>]
    ELSE LET p == QuantumRegister_probabilities(self.register)
         IN  [panicked |-> p.panicked, self |-> self, ret |-> p.ret]

----------------------------------------------------------------------------
(* The computer in use: any caller, any order of calls, any arguments. *)

\* The random samples of collapse: rand::random::<f64>() % 1.0 lies in [0, 1).
\* Every cumulative sum of this model is a multiple of 0.25, so a sample
\* compares with it as the multiple of 0.25 below the sample does.
Samples == 0..(Real(1, 1) - 1)

\* The values a caller passes to initialize: every valid one, and the first
\* that is out of range.
Values(w) == 0..Ket_size(w)

\* The computer, as one value.
Self == [state |-> state, width |-> width, register |-> register, classical |-> classical]

\* The step of a call `op` whose result is r.
Returns(op, r) ==
    /\ state' = r.self.state
    /\ width' = r.self.width
    /\ register' = r.self.register
    /\ classical' = r.self.classical
    /\ last' = [op |-> op, panicked |-> r.panicked, ret |-> r.ret]
    /\ UNCHANGED <<overflow_checks, the_matrix>>

Init ==
    /\ overflow_checks \in BOOLEAN
    /\ \E w \in 0..MaxWidth :
          LET c == QuantumComputer_new(overflow_checks, w)
          IN  /\ state = c.state
              /\ width = c.width
              /\ register = c.register
              /\ classical = c.classical
    /\ last = [op |-> "new", panicked |-> FALSE, ret |-> <<>>]
    /\ the_matrix = <<>>
    /\ run = <<>>

Initialize(value) ==
    LET r == QuantumComputer_initialize(overflow_checks, Self, U32(value))
    IN  /\ Returns("initialize", r)
        /\ run' = IF r.panicked THEN run ELSE <<value, 0>>

Apply(g) ==
    LET r == QuantumComputer_apply(Self, GateLib[g])
    IN  /\ Returns("apply", r)
        /\ run' = IF r.panicked THEN run
                  ELSE IF g[1] = "identity" /\ run # <<>> THEN <<run[1], 1>>
                  ELSE <<>>

Collapse(sample) ==
    /\ Returns("collapse", QuantumComputer_collapse(overflow_checks, Self, sample))
    /\ UNCHANGED run

Reset ==
    /\ Returns("reset", QuantumComputer_reset(Self))
    /\ UNCHANGED run

Value ==
    /\ Returns("value", QuantumComputer_value(overflow_checks, Self))
    /\ UNCHANGED run

Probabilities ==
    /\ Returns("probabilities", QuantumComputer_probabilities(Self))
    /\ UNCHANGED run

Next ==
    \/ \E value \in Values(width) : Initialize(value)
    \/ \E g \in GateIds : Apply(g)
    \/ \E sample \in Samples : Collapse(sample)
    \/ Reset
    \/ Value
    \/ Probabilities

Spec == Init /\ [][Next]_vars

\* The fixed point arithmetic loses nothing: every product that an apply of
\* a gate of matching width forms from the current ket is exact.
FixedPointExact ==
    \A g \in GateIds :
        GateLib[g].width = register.width =>
            \A i, k \in 0..(Ket_size(register.width) - 1) :
                \A a, b \in 1..2 :
                    FxExact(Matrix_get(GateLib[g].matrix, i, k)[a], register.ket.elements[k][b])

----------------------------------------------------------------------------
(* Properties of the QuantumComputer, under Spec *)

\* The ket is the basis vector of v: amplitude 1 at index v, 0 elsewhere.
IsBasisKet(ket, v) ==
    \A n \in 0..(MAX_SIZE - 1) :
        ket.elements[n] = IF n = v THEN Complex_one ELSE Complex_zero

\* The gates of GateLib of width w.
GatesOfWidth(w) == {g \in GateIds : GateLib[g].width = w}

\* C1: the computer starts in Initializing; a successful initialize moves
\* Initializing to Running, a successful collapse Running to Collapsed, and
\* reset Collapsed to Initializing; and in every state a computer reaches,
\* after any number of cycles, the next call of the cycle initialize, apply,
\* collapse, value, reset does not fail (for a value below 2^width and a gate
\* of the computer's width).
C1_Lifecycle ==
    /\ last.op = "new" => state = "Initializing"
    /\ \A v \in Values(width) :
          LET r == QuantumComputer_initialize(overflow_checks, Self, U32(v))
          IN  /\ ~r.panicked => state = "Initializing" /\ r.self.state = "Running"
              /\ state = "Initializing" /\ v < Ket_size(width) => ~r.panicked
    /\ \A g \in GateIds :
          LET r == QuantumComputer_apply(Self, GateLib[g])
          IN  /\ ~r.panicked => state = "Running" /\ r.self.state = "Running"
              /\ state = "Running" /\ GateLib[g].width = width => ~r.panicked
    /\ \A u \in Samples :
          LET r == QuantumComputer_collapse(overflow_checks, Self, u)
          IN  /\ ~r.panicked => state = "Running" /\ r.self.state = "Collapsed"
              /\ state = "Running" => ~r.panicked
    /\ LET r == QuantumComputer_value(overflow_checks, Self)
       IN  /\ ~r.panicked => state = "Collapsed" /\ r.self.state = "Collapsed"
           /\ state = "Collapsed" => ~r.panicked
    /\ LET r == QuantumComputer_reset(Self)
       IN  state = "Collapsed" => ~r.panicked /\ r.self.state = "Initializing"

\* C1 witness: a second run has started: initialize succeeded on a computer
\* that still stores the nonzero outcome of an earlier collapse.
C1_Witness ==
    /\ last.op = "initialize" /\ ~last.panicked
    /\ state = "Running"
    /\ classical # ClassicalRegister_zeroed(width).bits

\* C2: reset() called in Initializing or Running fails and leaves the state
\* unchanged, and no step moves Running to Initializing.
C2_ResetOnlyWhenCollapsed ==
    [][/\ (last'.op = "reset" /\ state # "Collapsed") => (last'.panicked /\ state' = state)
       /\ state = "Running" => state' # "Initializing"]_vars

\* The state in which each checked method is permitted.
Permitted(op) ==
    CASE op = "initialize" -> "Initializing"
      [] op \in {"apply", "collapse", "probabilities"} -> "Running"
      [] op = "value" -> "Collapsed"

\* C3: initialize, apply, collapse, probabilities and value fail when called
\* in another state than the permitted one, and the failing call leaves the
\* state tag, the quantum register and the classical register unchanged.
C3_WrongStateFails ==
    [][(/\ last'.op \in {"initialize", "apply", "collapse", "probabilities", "value"}
        /\ state # Permitted(last'.op))
       => (last'.panicked /\ UNCHANGED <<state, register, classical>>)]_vars

\* C3 witness: value() was called on a running computer and failed.
C3_Witness == last.op = "value" /\ last.panicked /\ state = "Running"

\* |amplitude[0]|^2 + ... + |amplitude[s]|^2
RECURSIVE CumulativeTo(_, _)
CumulativeTo(ket, s) ==
    IF s < 0 THEN 0 ELSE CumulativeTo(ket, s - 1) + Complex_norm_sqr(ket.elements[s])

\* The least element of a nonempty set of numbers.
Least(S) == CHOOSE x \in S : \A y \in S : x <= y

\* C10: collapse() on a live register never fails; with sample u it returns
\* from_state(width, s) for the least index s with
\* u < |amplitude[0]|^2 + ... + |amplitude[s]|^2, and state 0 when there is
\* none; the state returned is below 2^width and, outside the fallback, has
\* a nonzero probability.
C10_CollapseSamplesLeastIndex ==
    register.collapsed = FALSE =>
        \A u \in Samples :
            LET r == QuantumRegister_collapse(overflow_checks, register, u)
                hits == {s \in 0..(Ket_size(register.width) - 1) :
                            u < CumulativeTo(register.ket, s)}
                s0 == IF hits = {} THEN 0 ELSE Least(hits)
            IN  /\ ~r.panicked
                /\ r.register.collapsed = TRUE
                /\ r.ret = ClassicalRegister_from_state(overflow_checks, register.width, U32(s0)).bits
                /\ ClassicalRegister_width(r.ret) = register.width
                /\ ClassicalRegister_state(overflow_checks, r.ret).value = U32(s0)
                /\ s0 < Ket_size(register.width)
                /\ hits # {} => Complex_norm_sqr(register.ket.elements[s0]) > 0

\* C10 witness: a register of width 2 in a superposition of four states of
\* probability 0.25 each has collapsed to state 3.
C10_Witness ==
    /\ last.op = "collapse" /\ ~last.panicked /\ state = "Collapsed"
    /\ width = 2
    /\ \A n \in 0..3 : Complex_norm_sqr(register.ket.elements[n]) = Real(1, 4)
    /\ ClassicalRegister_state(overflow_checks, classical).value = U32(3)

\* C20: a call of reset changes the state tag only: the quantum register
\* (ket and collapsed flag), the classical register and the width are as
\* before; and while the computer is in Initializing, every call but a
\* successful initialize leaves the three as they are.
C20_ResetChangesOnlyState ==
    [][/\ last'.op = "reset" =>
              /\ ~last'.panicked
              /\ state' = "Initializing"
              /\ register' = register /\ classical' = classical /\ width' = width
       /\ (state = "Initializing" /\ ~(last'.op = "initialize" /\ ~last'.panicked)) =>
              register' = register /\ classical' = classical /\ width' = width]_vars

\* After a collapse to 5 and a reset, a call of apply has failed, and the
\* collapsed register and the classical register 101 are still stored.
C20_Witness ==
    /\ state = "Initializing"
    /\ last.op = "apply" /\ last.panicked
    /\ register.collapsed = TRUE
    /\ width = 3
    /\ ClassicalRegister_state(overflow_checks, classical).value = U32(5)

----------------------------------------------------------------------------
(* One run of a computer, as compute_test and test_gate make it             *)
(* (computer.rs:134-147, gates.rs:259-267): new(w), initialize(v) with      *)
(* v < 2^w, any number of apply(g) with gates of width w, collapse(),       *)
(* value().                                                                 *)

InitRun ==
    /\ overflow_checks \in BOOLEAN
    /\ \E w \in 0..MaxRunWidth :
          LET c == QuantumComputer_new(overflow_checks, w)
          IN  /\ state = c.state
              /\ width = c.width
              /\ register = c.register
              /\ classical = c.classical
    /\ last = [op |-> "new", panicked |-> FALSE, ret |-> <<>>]
    /\ the_matrix = <<>>
    /\ run = <<>>

RunInitialize == state = "Initializing" /\ \E value \in 0..(Ket_size(width) - 1) : Initialize(value)

RunApply == state = "Running" /\ \E g \in GatesOfWidth(width) : Apply(g)

RunCollapse == state = "Running" /\ \E sample \in Samples : Collapse(sample)

RunValue == state = "Collapsed" /\ Value

NextRun ==
    \/ RunInitialize
    \/ RunApply
    \/ RunCollapse
    \/ RunValue

SpecRun == InitRun /\ [][NextRun]_vars

\* C5: on a computer of width w <= 5, initialize(v) succeeds for every
\* v < 2^w; after it and zero or more identity gates the ket is the basis
\* vector of v, apply(identity(w)) succeeds, and for every sample collapse
\* succeeds and value() then returns v; and apply(identity(w)) leaves every
\* amplitude of any ket of the run unchanged.
C5_ClassicalCollapseIsDeterministic ==
    width <= 5 =>
        /\ state = "Initializing" =>
              \A v \in 0..(Ket_size(width) - 1) :
                  ~QuantumComputer_initialize(overflow_checks, Self, U32(v)).panicked
        /\ (run # <<>> /\ state = "Running") =>
              /\ IsBasisKet(register.ket, run[1])
              /\ \A u \in Samples :
                    LET c == QuantumComputer_collapse(overflow_checks, Self, u)
                        v == QuantumComputer_value(overflow_checks, c.self)
                    IN  ~c.panicked /\ ~v.panicked /\ v.ret = U32(run[1])
        /\ (run # <<>> /\ state = "Collapsed") =>
              /\ ClassicalRegister_state(overflow_checks, classical).value = U32(run[1])
              /\ (last.op = "value" => ~last.panicked /\ last.ret = U32(run[1]))
        /\ state = "Running" =>
              LET a == QuantumComputer_apply(Self, GateLib[<<"identity", width>>])
              IN  ~a.panicked /\ a.self.register.ket = register.ket

\* C5 witness: initialize(21) on a computer of width 5, an identity gate,
\* collapse, and value() has returned.
C5_Witness ==
    /\ width = 5 /\ run = <<21, 1>>
    /\ state = "Collapsed" /\ last.op = "value" /\ ~last.panicked

----------------------------------------------------------------------------
(* A QuantumRegister used on its own (registers.rs:36-112): `register` is  *)
(* the register, `classical` the last ClassicalRegister it was built from  *)
(* or returned; there is no computer.                                      *)

RegReturns(op, r) ==
    /\ register' = r.register
    /\ last' = [op |-> op, panicked |-> r.panicked, ret |-> r.ret]
    /\ UNCHANGED <<state, width, overflow_checks, the_matrix, run>>

\* The least width whose ket has more than MAX_SIZE elements.  Ket::new
\* checks no size, so a register of this width can be constructed.
OverWidth ==
    CHOOSE w \in 1..(U32_BITS - 2) : Ket_size(w - 1) <= MAX_SIZE /\ Ket_size(w) > MAX_SIZE

\* let mut r = QuantumRegister::new(w, &ClassicalRegister::from_state(w, s)),
\* for every w and s with which the construction succeeds.
InitReg ==
    /\ overflow_checks \in BOOLEAN
    /\ \E w \in 0..MaxWidth \cup {OverWidth} :
          \E s \in 0..(Ket_size(w) - 1) :
              /\ width = w
              /\ classical = ClassicalRegister_from_state(overflow_checks, w, U32(s)).bits
              /\ ~QuantumRegister_new(overflow_checks, w, classical).panicked
              /\ register = QuantumRegister_new(overflow_checks, w, classical).register
    /\ state = "none"
    /\ last = [op |-> "new", panicked |-> FALSE, ret |-> <<>>]
    /\ the_matrix = <<>>
    /\ run = <<>>

\* r.apply(gate)
RegApply(g) ==
    LET r == QuantumRegister_apply(register, GateLib[g])
    IN  /\ RegReturns("apply", [panicked |-> r.panicked, register |-> r.register, ret |-> <<>>])
        /\ UNCHANGED classical

\* let end = r.collapse()
RegCollapse(sample) ==
    LET r == QuantumRegister_collapse(overflow_checks, register, sample)
    IN  /\ RegReturns("collapse", r)
        /\ classical' = IF r.panicked THEN classical ELSE r.ret

\* r.probabilities()
RegProbabilities ==
    LET p == QuantumRegister_probabilities(register)
    IN  /\ RegReturns("probabilities",
                      [panicked |-> p.panicked, register |-> register, ret |-> p.ret])
        /\ UNCHANGED classical

NextReg ==
    \/ \E g \in GateIds : RegApply(g)
    \/ \E sample \in Samples : RegCollapse(sample)
    \/ RegProbabilities

SpecReg == InitReg /\ [][NextReg]_vars

\* C4: the collapsed flag of a register never returns to false; a collapse
\* of a live register sets it, whatever the result (also when no index is
\* found and state 0 is returned); and every collapse, apply and
\* probabilities on a collapsed register fails and changes nothing.
C4_CollapsedOnce ==
    [][/\ register.collapsed = TRUE => register'.collapsed = TRUE
       /\ (last'.op = "collapse" /\ register.collapsed = FALSE) =>
             (register'.collapsed = TRUE /\ ~last'.panicked)
       /\ (register.collapsed = TRUE /\ last'.op \in {"collapse", "apply", "probabilities"}) =>
             (last'.panicked /\ register' = register)]_vars

\* C4 witness: a second collapse of the same register has failed.
C4_Witness == register.collapsed = TRUE /\ last.op = "collapse" /\ last.panicked

\* C11: probabilities() of a live register succeeds and returns a vector of
\* length exactly 2^width whose entry s is |amplitude[s]|^2, and the call
\* leaves the ket and the collapsed flag unchanged.
C11_ProbabilitiesLength ==
    (last.op = "probabilities" /\ register.collapsed = FALSE) =>
        /\ ~last.panicked
        /\ Len(last.ret) = Ket_size(register.width)
        /\ \A s \in 1..Len(last.ret) :
              last.ret[s] = Complex_norm_sqr(register.ket.elements[s - 1])

----------------------------------------------------------------------------
(* ClassicalRegister used on its own (registers.rs:172-266, as state_test  *)
(* and from_classical_test use it): a register is built by from_state or   *)
(* by new from the input `run`, then state() is read and a register is     *)
(* rebuilt from it, or a QuantumRegister is built from it.  `state` is     *)
(* "none" before the construction, "built" after it, "failed" when it      *)
(* panicked; `classical` is the register built.                            *)

\* The widths tried: all up to MaxRoundTripWidth, and those around the width
\* of u32.
ClassicalWidths == 0..MaxRoundTripWidth \cup {U32_BITS - 1, U32_BITS, U32_BITS + 1}

\* The states passed to from_state(w, _): for a small width every valid one
\* and the first invalid one; for a wide one the extremes of u32.
StateInputs(w) ==
    IF w <= MaxRoundTripWidth THEN {U32(n) : n \in 0..Ket_size(w)}
    ELSE {<<0, 0>>, <<0, 1>>, <<Limb \div 2 - 1, Limb - 1>>, <<Limb \div 2, 0>>,
          <<Limb - 1, Limb - 1>>}

\* The vectors passed to new(_): for a small width every vector of bits, and
\* one with an entry that is no bit; for a wide one the extremes.
BitsInputs(w) ==
    IF w <= MaxRoundTripWidth
    THEN [1..w -> {0, 1}] \cup {[k \in 1..w |-> IF k = w THEN 2 ELSE 0]}
    ELSE {[k \in 1..w |-> 0], [k \in 1..w |-> 1],
          [k \in 1..w |-> IF k = 1 THEN 1 ELSE 0],
          [k \in 1..w |-> IF k = w THEN 1 ELSE 0]}

InitClassical ==
    /\ overflow_checks \in BOOLEAN
    /\ width \in ClassicalWidths
    /\ \/ \E s \in StateInputs(width) : run = <<"state", s>>
       \/ \E bits \in BitsInputs(width) : run = <<"bits", bits>>
    /\ state = "none"
    /\ classical = <<>>
    /\ register = <<>>
    /\ last = [op |-> "none", panicked |-> FALSE, ret |-> <<>>]
    /\ the_matrix = <<>>

\* let r = ClassicalRegister::from_state(width, s)
FromState ==
    /\ state = "none" /\ run[1] = "state"
    /\ LET r == ClassicalRegister_from_state(overflow_checks, width, run[2])
       IN  /\ state' = IF r.panicked THEN "failed" ELSE "built"
           /\ classical' = IF r.panicked THEN classical ELSE r.bits
           /\ last' = [op |-> "from_state", panicked |-> r.panicked, ret |-> <<>>]
    /\ UNCHANGED <<width, register, overflow_checks, the_matrix, run>>

\* let r = ClassicalRegister::new(bits)
New ==
    /\ state = "none" /\ run[1] = "bits"
    /\ LET r == ClassicalRegister_new(run[2])
       IN  /\ state' = IF r.panicked THEN "failed" ELSE "built"
           /\ classical' = IF r.panicked THEN classical ELSE r.bits
           /\ last' = [op |-> "new", panicked |-> r.panicked, ret |-> <<>>]
    /\ UNCHANGED <<width, register, overflow_checks, the_matrix, run>>

\* r.state()
State ==
    /\ state = "built" /\ last.op \in {"from_state", "new"}
    /\ LET r == ClassicalRegister_state(overflow_checks, classical)
       IN  last' = [op |-> "state", panicked |-> r.panicked,
                    ret |-> IF r.panicked THEN <<>> ELSE r.value]
    /\ UNCHANGED <<state, width, register, classical, overflow_checks, the_matrix, run>>

\* ClassicalRegister::from_state(r.width(), r.state()), with r.state() as returned
Rebuild ==
    /\ state = "built" /\ last.op = "state" /\ ~last.panicked
    /\ LET r == ClassicalRegister_from_state(overflow_checks,
                                             ClassicalRegister_width(classical), last.ret)
       IN  last' = [op |-> "rebuild", panicked |-> r.panicked, ret |-> r.bits]
    /\ UNCHANGED <<state, width, register, classical, overflow_checks, the_matrix, run>>

\* QuantumRegister::new(r.width(), &r), which is Ket::from_classical(&r)
FromClassical ==
    /\ state = "built" /\ last.op \in {"from_state", "new"}
    /\ ClassicalRegister_width(classical) <= MaxRoundTripWidth
    /\ LET q == QuantumRegister_new(overflow_checks, ClassicalRegister_width(classical), classical)
       IN  /\ register' = q.register
           /\ last' = [op |-> "from_classical", panicked |-> q.panicked, ret |-> <<>>]
    /\ UNCHANGED <<state, width, classical, overflow_checks, the_matrix, run>>

NextClassical ==
    \/ FromState
    \/ New
    \/ State
    \/ Rebuild
    \/ FromClassical

SpecClassical == InitClassical /\ [][NextClassical]_vars

\* The sum of 2^(p - base) over the positions p of P.
RECURSIVE SumPow(_, _)
SumPow(P, base) ==
    IF P = {} THEN 0
    ELSE LET p == CHOOSE x \in P : TRUE
         IN  2^(p - base) + SumPow(P \ {p}, base)

\* The sum of 2^pos over the positions pos (from the left, from 0) of the
\* bits that are 1, as a u32 in limbs; for at most U32_BITS bits.
PositionalSum(bits) ==
    LET ones == {pos \in 0..(Len(bits) - 1) : bits[pos + 1] = 1}
    IN  <<SumPow({pos \in ones : pos >= 16}, 16), SumPow({pos \in ones : pos < 16}, 0)>>

\* Whether s < 2^w, for a u32 s.
InRange(w, s) == w >= U32_BITS \/ U32_lt(s, U32_pow2(w).value)

\* C6: for every width w up to MaxRoundTripWidth (and for w = 31) and every
\* s < 2^w, from_state(w, s) succeeds, has width w, and its state() is s;
\* and for every vector r of w bits, from_state(w, r.state()) is r.
C6_RoundTrip ==
    width < U32_BITS =>
        /\ (run[1] = "state" /\ InRange(width, run[2])) =>
              LET r == ClassicalRegister_from_state(overflow_checks, width, run[2])
              IN  /\ ~r.panicked
                  /\ ClassicalRegister_width(r.bits) = width
                  /\ ClassicalRegister_state(overflow_checks, r.bits) =
                        [panicked |-> FALSE, value |-> run[2]]
        /\ (run[1] = "bits" /\ ~ClassicalRegister_new(run[2]).panicked) =>
              LET st == ClassicalRegister_state(overflow_checks, run[2])
              IN  /\ ~st.panicked
                  /\ ClassicalRegister_from_state(overflow_checks, width, st.value) =
                        [panicked |-> FALSE, bits |-> run[2]]
        /\ (last.op = "state" /\ run[1] = "state") => (~last.panicked /\ last.ret = run[2])
        /\ last.op = "rebuild" => (~last.panicked /\ last.ret = classical)

\* C6 witness: from_state(10, 682).state() has returned 682, and
\* from_state(10, 682) has been rebuilt from it.
C6_Witness ==
    /\ width = 10 /\ run = <<"state", U32(682)>>
    /\ last.op = "rebuild" /\ ~last.panicked
    /\ classical = <<0, 1, 0, 1, 0, 1, 0, 1, 0, 1>>

\* C7: state() is the sum of 2^pos over the positions of the 1 bits, the
\* leftmost bit being position 0 ([0,1,0,1] gives 10, [0,1,1] gives 6), for
\* every register of at most 32 bits; and for a register whose ket fits the
\* buffer (2^width <= MAX_SIZE), Ket::from_classical gives amplitude 1 at
\* index state() and 0 at every other index.
C7_StateIsPositionalSum ==
    /\ ClassicalRegister_state(overflow_checks, <<0, 1, 0, 1>>).value = U32(10)
    /\ ClassicalRegister_state(overflow_checks, <<0, 1, 1>>).value = U32(6)
    /\ (state = "built" /\ ClassicalRegister_width(classical) <= U32_BITS) =>
          /\ ClassicalRegister_state(overflow_checks, classical) =
                [panicked |-> FALSE, value |-> PositionalSum(classical)]
          /\ last.op = "state" => (~last.panicked /\ last.ret = PositionalSum(classical))
    /\ (state = "built" /\ ClassicalRegister_width(classical) \in GateWidths) =>
          /\ LET k == Ket_from_classical(overflow_checks, classical)
             IN  /\ ~k.panicked
                 /\ IsBasisKet(k.ket, U32_as_usize(PositionalSum(classical)))
          /\ last.op = "from_classical" =>
                /\ ~last.panicked
                /\ IsBasisKet(register.ket, U32_as_usize(PositionalSum(classical)))

\* C7 witness: the ket of the register [0,1,0,1] has been built.
C7_Witness ==
    /\ run = <<"bits", <<0, 1, 0, 1>>>>
    /\ last.op = "from_classical" /\ ~last.panicked
    /\ register.ket.elements[10] = Complex_one

\* C8: from_state(width, state) fails exactly when state >= 2^width, for
\* every width up to 32.
C8_FailsExactlyWhenOutOfRange ==
    (last.op = "from_state" /\ width <= U32_BITS) =>
        (last.panicked <=> ~InRange(width, run[2]))

\* C9: for width 32, from_state(32, s) succeeds for every 32-bit s, and
\* state() of the register built succeeds and returns s.
C9_Width32Valid ==
    width = U32_BITS =>
        /\ last.op = "from_state" => ~last.panicked
        /\ last.op = "state" =>
              (~last.panicked /\ (run[1] = "state" => last.ret = run[2]))

----------------------------------------------------------------------------
(* A Matrix used on its own (matrix.rs, as matrix_test, embed_test and      *)
(* permutation_test use it): `the_matrix` is a matrix m built by new,       *)
(* identity or new_from_elements, to which set, embed, add, multiply,       *)
(* permute_rows or permute_columns is applied (m = &m + &n, ...).           *)
(* `run` is <<within>>: whether every set so far had both indices below    *)
(* the size of the matrix.                                                  *)

\* m_real![1, 2, ...; ...]: the matrix of the given size with entries 1, 2, 3, ...
counting(size) == m_real(size, [k \in 1..(size * size) |-> Real(k, 1)])

\* The matrices a caller constructs.
Operands ==
    UNION {{Matrix_new(n), Matrix_identity(n), counting(n)} : n \in 0..MaxMatrixSize}

\* The vectors passed to permute_rows and permute_columns for a matrix of
\* size n: every vector of length n over 0..n (the permutations of 0..n-1,
\* vectors with a repeated index, vectors with the index n), and the vectors
\* 0, 1, ... of the lengths n - 1 and n + 1.
PermutationInputs(n) ==
    [1..n -> 0..n] \cup {[k \in 1..(n + 1) |-> k - 1]}
                   \cup (IF n > 0 THEN {[k \in 1..(n - 1) |-> k - 1]} ELSE {})

\* The value passed to set.
SetValue == Complex_new(Real(9, 1), Real(1, 1))

MatrixReturns(op, r) ==
    /\ the_matrix' = IF r.panicked THEN the_matrix ELSE r.matrix
    /\ last' = [op |-> op, panicked |-> r.panicked, ret |-> <<>>]
    /\ UNCHANGED <<state, width, register, classical, overflow_checks>>

\* let mut m = Matrix::new(n) / Matrix::identity(n) / m_real![...]
InitMatrix ==
    /\ the_matrix \in Operands
    /\ run = <<TRUE>>
    /\ last = [op |-> "new", panicked |-> FALSE, ret |-> <<>>]
    /\ state = "none"
    /\ width = 0
    /\ register = <<>>
    /\ classical = <<>>
    /\ overflow_checks = FALSE

\* m.set(i, j, value), for indices up to the size of the matrix (the index
\* `size` is the first outside it)
MatrixSet(i, j) ==
    /\ last.op = "new"
    /\ MatrixReturns("set", [panicked |-> FALSE, matrix |-> Matrix_set(the_matrix, i, j, SetValue)])
    /\ run' = <<run[1] /\ i < the_matrix.size /\ j < the_matrix.size>>

\* m.embed(&other, i, j)
MatrixEmbed(other, i, j) ==
    /\ last.op = "new"
    /\ MatrixReturns("embed", Matrix_embed(the_matrix, other, i, j))
    /\ UNCHANGED run

\* m = &m + &rhs
MatrixAdd(rhs) ==
    /\ last.op = "new"
    /\ MatrixReturns("add", Matrix_add(the_matrix, rhs))
    /\ UNCHANGED run

\* m = &m * &rhs
MatrixMul(rhs) ==
    /\ last.op = "new"
    /\ MatrixReturns("mul", Matrix_mul(the_matrix, rhs))
    /\ UNCHANGED run

\* m = m.permute_rows(permutation)
MatrixPermuteRows(permutation) ==
    /\ last.op = "new"
    /\ MatrixReturns("permute_rows", Matrix_permute_rows(the_matrix, permutation))
    /\ UNCHANGED run

\* m = m.permute_columns(permutation)
MatrixPermuteColumns(permutation) ==
    /\ last.op = "new"
    /\ MatrixReturns("permute_columns", Matrix_permute_columns(the_matrix, permutation))
    /\ UNCHANGED run

NextMatrix ==
    \/ \E i, j \in 0..the_matrix.size : MatrixSet(i, j)
    \/ \E other \in Operands : \E i, j \in 0..the_matrix.size : MatrixEmbed(other, i, j)
    \/ \E rhs \in Operands : MatrixAdd(rhs)
    \/ \E rhs \in Operands : MatrixMul(rhs)
    \/ \E permutation \in PermutationInputs(the_matrix.size) : MatrixPermuteRows(permutation)
    \/ \E permutation \in PermutationInputs(the_matrix.size) : MatrixPermuteColumns(permutation)

SpecMatrix == InitMatrix /\ [][NextMatrix]_vars

----------------------------------------------------------------------------
(* Claims about Matrix, under SpecMatrix.  Each is stated for the matrix    *)
(* the caller holds and for every argument of the next call.                *)

\* C12: embed(other, i, j) overwrites exactly the block with its top-left
\* corner at (i, j): afterwards get(i + x, j + y) is other.get(x, y) for all
\* x, y < other.size and every entry outside the block is unchanged, for
\* every i and j, equal or not; and it fails, leaving the matrix unchanged,
\* when i + other.size or j + other.size exceeds the size.
C12_EmbedBlock ==
    \A other \in Operands : \A i, j \in 0..the_matrix.size :
        LET r == Matrix_embed(the_matrix, other, i, j)
            fits == i + other.size <= the_matrix.size /\ j + other.size <= the_matrix.size
            inblock(a, b) == /\ i <= a /\ a < i + other.size
                             /\ j <= b /\ b < j + other.size
        IN  /\ fits =>
                /\ ~r.panicked
                /\ \A a, b \in 0..(MAX_SIZE - 1) :
                      Matrix_get(r.matrix, a, b) =
                          IF inblock(a, b) THEN Matrix_get(other, a - i, b - j)
                          ELSE Matrix_get(the_matrix, a, b)
            /\ ~fits => r.panicked /\ r.matrix = the_matrix

\* The vector is a permutation of 0 .. n-1.
IsPermutation(permutation, n) ==
    /\ Len(permutation) = n
    /\ \A v \in 0..(n - 1) : Cardinality({k \in 1..n : permutation[k] = v}) = 1

\* Rows a of m and b of n agree on the entries of the matrix.
SameRow(m, a, n, b) ==
    \A j \in 0..(m.size - 1) : Matrix_get(m, a, j) = Matrix_get(n, b, j)

SameColumn(m, a, n, b) ==
    \A i \in 0..(m.size - 1) : Matrix_get(m, i, a) = Matrix_get(n, i, b)

\* C13: for a permutation perm, permute_rows(perm) returns a matrix of the
\* same size whose row perm[k] is row k of the original, for every k, and
\* permute_columns(perm) the same for columns; so the identity permutation
\* returns a matrix equal to the original (for one whose entries beyond its
\* size were never written), and a transposition exchanges two rows or
\* columns and leaves the others where they were.
C13_PermuteMovesRows ==
    \A permutation \in PermutationInputs(the_matrix.size) :
        IsPermutation(permutation, the_matrix.size) =>
            LET rows == Matrix_permute_rows(the_matrix, permutation)
                cols == Matrix_permute_columns(the_matrix, permutation)
            IN  /\ ~rows.panicked /\ rows.matrix.size = the_matrix.size
                /\ ~cols.panicked /\ cols.matrix.size = the_matrix.size
                /\ \A k \in 0..(the_matrix.size - 1) :
                      /\ SameRow(rows.matrix, permutation[k + 1], the_matrix, k)
                      /\ SameColumn(cols.matrix, permutation[k + 1], the_matrix, k)
                /\ ((\A k \in 1..the_matrix.size : permutation[k] = k - 1) /\ run[1]) =>
                      /\ Matrix_eq(rows.matrix, the_matrix) = [panicked |-> FALSE, ret |-> TRUE]
                      /\ Matrix_eq(cols.matrix, the_matrix) = [panicked |-> FALSE, ret |-> TRUE]

\* A matrix of size 3 went through permute_rows and its rows now stand in
\* the order 3rd, 1st, 2nd: the permutation was [1, 2, 0], a cycle.
C13_Witness ==
    /\ last.op = "permute_rows" /\ ~last.panicked
    /\ the_matrix = m_real(3, <<Real(7, 1), Real(8, 1), Real(9, 1),
                                Real(1, 1), Real(2, 1), Real(3, 1),
                                Real(4, 1), Real(5, 1), Real(6, 1)>>)

\* C14: permute_rows and permute_columns fail for every argument that is
\* not a permutation of 0 .. size-1 (wrong length, a repeated index, an index
\* not below the size) and succeed for every argument that is one.
C14_FailsExactlyForNonPermutations ==
    \A permutation \in PermutationInputs(the_matrix.size) :
        /\ Matrix_permute_rows(the_matrix, permutation).panicked
               <=> ~IsPermutation(permutation, the_matrix.size)
        /\ Matrix_permute_columns(the_matrix, permutation).panicked
               <=> ~IsPermutation(permutation, the_matrix.size)

\* A call of permute_columns on a matrix of size 3 has failed.
C14_Witness ==
    /\ last.op = "permute_columns" /\ last.panicked
    /\ the_matrix.size = 3

\* The sum of f[k] over the k of the set S of numbers, as the sum over the
\* lower half of S plus the sum over the upper half.
RECURSIVE ComplexSum(_, _)
ComplexSum(f, S) ==
    IF S = {} THEN Complex_zero
    ELSE IF Cardinality(S) = 1 THEN f[CHOOSE x \in S : TRUE]
    ELSE LET middle == CHOOSE m \in S :
                           Cardinality({x \in S : x <= m}) = Cardinality(S) \div 2
         IN  Complex_add(ComplexSum(f, {x \in S : x <= middle}),
                         ComplexSum(f, {x \in S : x > middle}))

\* The vectors a matrix of size n is multiplied with: 10, 20, ... in the
\* first n places, and each unit vector; the tail is zero.
VectorInputs(n) ==
    {[k \in 0..(MAX_SIZE - 1) |->
         IF k < n THEN Complex_new(Real(10 * (k + 1), 1), Real(0, 1)) ELSE Complex_zero]}
    \cup {[k \in 0..(MAX_SIZE - 1) |-> IF k = u THEN Complex_i ELSE Complex_zero] :
             u \in 0..(n - 1)}

\* C15: for operands of one size, entry (i, j) of the sum is the sum of the
\* entries (i, j) and entry (i, j) of the product is the sum over k < size of
\* self[i][k] * rhs[k][j] (so [[1,2],[3,4]] added to itself is
\* [[2,4],[6,8]] and multiplied by itself [[7,10],[15,22]]); both fail when
\* the sizes differ; and matrix x vector gives output[i] = the sum over
\* k < size of M[i][k] * v[k] for i < size, and zero beyond.
C15_AddMulStandard ==
    /\ \A rhs \in Operands :
          LET sum == Matrix_add(the_matrix, rhs)
              product == Matrix_mul(the_matrix, rhs)
              n == the_matrix.size
          IN  IF rhs.size # n THEN sum.panicked /\ product.panicked
              ELSE /\ ~sum.panicked /\ sum.matrix.size = n
                   /\ ~product.panicked /\ product.matrix.size = n
                   /\ \A i, j \in 0..(n - 1) :
                         /\ Matrix_get(sum.matrix, i, j) =
                                Complex_add(Matrix_get(the_matrix, i, j), Matrix_get(rhs, i, j))
                         /\ Matrix_get(product.matrix, i, j) =
                                ComplexSum([k \in 0..(n - 1) |->
                                               Complex_mul(Matrix_get(the_matrix, i, k),
                                                           Matrix_get(rhs, k, j))],
                                           0..(n - 1))
    /\ \A v \in VectorInputs(the_matrix.size) :
          LET output == Matrix_mul_vector(the_matrix, v)
          IN  /\ ~output.panicked
              /\ \A i \in 0..(MAX_SIZE - 1) :
                    output.vector[i] =
                        IF i < the_matrix.size
                        THEN ComplexSum([k \in 0..(the_matrix.size - 1) |->
                                            Complex_mul(Matrix_get(the_matrix, i, k), v[k])],
                                        0..(the_matrix.size - 1))
                        ELSE Complex_zero
    /\ the_matrix = counting(2) =>
          /\ Matrix_add(the_matrix, the_matrix).matrix =
                 m_real(2, <<Real(2, 1), Real(4, 1), Real(6, 1), Real(8, 1)>>)
          /\ Matrix_mul(the_matrix, the_matrix).matrix =
                 m_real(2, <<Real(7, 1), Real(10, 1), Real(15, 1), Real(22, 1)>>)
          /\ \E v \in VectorInputs(2) :
                /\ v[0] = Complex_new(Real(10, 1), Real(0, 1))
                /\ Matrix_mul_vector(the_matrix, v).vector[0] = Complex_new(Real(50, 1), Real(0, 1))
                /\ Matrix_mul_vector(the_matrix, v).vector[1] = Complex_new(Real(110, 1), Real(0, 1))

\* [[1,2],[3,4]] has been multiplied by itself.
C15_Witness ==
    /\ last.op = "mul" /\ ~last.panicked
    /\ the_matrix = m_real(2, <<Real(7, 1), Real(10, 1), Real(15, 1), Real(22, 1)>>)

\* Every entry with a row or a column index from size to MAX_SIZE - 1 is zero.
ZeroPadded(m) ==
    LET elements == m.elements
        size == m.size
    IN  \A n \in 0..(MAX_ELEMENTS - 1) :
            (n \div MAX_SIZE >= size \/ n % MAX_SIZE >= size) => elements[n] = Complex_zero

\* C19 as stated: after any sequence of new, identity, new_from_elements,
\* set, embed, add, multiply, permute_rows and permute_columns, every entry
\* of the buffer with a row or column index >= size is zero.
C19_ZeroPadding == ZeroPadded(the_matrix)

\* C19, for callers whose set has both indices below the size: the entries
\* with a row or column index >= size are zero after construction and after
\* every operation, and stay zero through the next one, whatever its
\* arguments.
C19_ZeroPaddingWithinSize ==
    run[1] =>
        /\ ZeroPadded(the_matrix)
        /\ \A i, j \in 0..(the_matrix.size - 1) :
              ZeroPadded(Matrix_set(the_matrix, i, j, SetValue))
        /\ \A other \in Operands :
              /\ \A i, j \in 0..the_matrix.size :
                    ZeroPadded(Matrix_embed(the_matrix, other, i, j).matrix)
              /\ other.size = the_matrix.size =>
                    /\ ZeroPadded(Matrix_add(the_matrix, other).matrix)
                    /\ ZeroPadded(Matrix_mul(the_matrix, other).matrix)
        /\ \A permutation \in PermutationInputs(the_matrix.size) :
              IsPermutation(permutation, the_matrix.size) =>
                  /\ ZeroPadded(Matrix_permute_rows(the_matrix, permutation).matrix)
                  /\ ZeroPadded(Matrix_permute_columns(the_matrix, permutation).matrix)

\* An identity block has been embedded in a matrix of size 3, by a caller
\* who kept to the size.
C19_Witness ==
    /\ last.op = "embed" /\ ~last.panicked /\ run[1]
    /\ the_matrix.size = 3
    /\ the_matrix # counting(3)
    /\ Matrix_get(the_matrix, 2, 2) = Complex_one

----------------------------------------------------------------------------
(* SpecGate: the gates tried as the tests of gates.rs try them, with      *)
(* test_gate!, on a new computer: initialize(from), apply(gate),          *)
(* collapse(), value().  The gate is one of the library or one of these   *)
(* permuted with Gate::permute.  `run` is <<from>> after initialize and   *)
(* <<from, g>> or <<from, g, permutation>> after apply.                   *)

\* The permutations passed to Gate::permute for a matrix of size n: the
\* rotations k -> k + c (mod n), of which [2, 3, 0, 1] is the one for n = 4
\* and c = 2, and the reversal k -> n - 1 - k.
GatePermutations(n) ==
    {[k \in 1..n |-> (k - 1 + c) % n] : c \in 0..(n - 1)} \cup
    {[k \in 1..n |-> n - k]}

InitGate ==
    /\ overflow_checks \in BOOLEAN
    /\ \E w \in 0..MaxGateWidth :
          LET c == QuantumComputer_new(overflow_checks, w)
          IN  /\ state = c.state
              /\ width = c.width
              /\ register = c.register
              /\ classical = c.classical
    /\ last = [op |-> "new", panicked |-> FALSE, ret |-> <<>>]
    /\ the_matrix = <<>>
    /\ run = <<>>

\* $computer.initialize($from)
GateInitialize(from) ==
    /\ run = <<>>
    /\ Returns("initialize", QuantumComputer_initialize(overflow_checks, Self, U32(from)))
    /\ run' = <<from>>

\* $computer.apply($gate), for a gate of the library
GateApply(g) ==
    /\ Len(run) = 1
    /\ Returns("apply", QuantumComputer_apply(Self, GateLib[g]))
    /\ run' = <<run[1], g>>

\* $computer.apply($gate), for a gate of the library permuted
GateApplyPermuted(g, permutation) ==
    /\ Len(run) = 1
    /\ LET permuted == Gate_permute(GateLib[g], permutation)
       IN  IF permuted.panicked
           THEN Returns("apply", [panicked |-> TRUE, self |-> Self, ret |-> <<>>])
           ELSE Returns("apply", QuantumComputer_apply(Self, permuted.gate))
    /\ run' = <<run[1], g, permutation>>

\* $computer.collapse()
GateCollapse(sample) ==
    /\ Len(run) > 1
    /\ last.op = "apply"
    /\ Returns("collapse", QuantumComputer_collapse(overflow_checks, Self, sample))
    /\ UNCHANGED run

\* $computer.value()
GateValue ==
    /\ last.op = "collapse"
    /\ Returns("value", QuantumComputer_value(overflow_checks, Self))
    /\ UNCHANGED run

NextGate ==
    \/ \E from \in 0..(Ket_size(width) - 1) : GateInitialize(from)
    \/ \E g \in GatesOfWidth(width) : GateApply(g)
    \/ \E g \in GatesOfWidth(width) :
          \E permutation \in GatePermutations(Ket_size(width)) : GateApplyPermuted(g, permutation)
    \/ \E sample \in Samples : GateCollapse(sample)
    \/ GateValue

SpecGate == InitGate /\ [][NextGate]_vars

\* The cases of C16: <<gate, from, to>>.
PermutationGateCases ==
    {<<<<"pauli_x", 1>>, 0, 1>>, <<<<"pauli_x", 1>>, 1, 0>>,
     <<<<"pauli_z", 1>>, 0, 0>>, <<<<"pauli_z", 1>>, 1, 1>>,
     <<<<"controlled_not", 2>>, 2, 3>>, <<<<"controlled_not", 2>>, 3, 2>>,
     <<<<"controlled_not", 2>>, 0, 0>>, <<<<"controlled_not", 2>>, 1, 1>>,
     <<<<"swap", 2>>, 2, 1>>, <<<<"swap", 2>>, 0, 0>>, <<<<"swap", 2>>, 3, 3>>,
     <<<<"toffoli", 3>>, 6, 7>>, <<<<"toffoli", 3>>, 7, 6>>,
     <<<<"toffoli", 3>>, 0, 0>>, <<<<"toffoli", 3>>, 2, 2>>,
     <<<<"fredkin", 3>>, 5, 6>>, <<<<"fredkin", 3>>, 6, 5>>,
     <<<<"fredkin", 3>>, 0, 0>>, <<<<"fredkin", 3>>, 7, 7>>}

\* From the state after apply, whatever the sample, collapse and value
\* succeed and value returns `to`; and where value has returned, it has
\* returned `to`.
Gives(to) ==
    /\ ~last.panicked
    /\ last.op = "apply" =>
          \A sample \in Samples :
              LET c == QuantumComputer_collapse(overflow_checks, Self, sample)
                  v == QuantumComputer_value(overflow_checks, c.self)
              IN  ~c.panicked /\ ~v.panicked /\ v.ret = U32(to)
    /\ last.op = "value" => last.ret = U32(to)

\* C16: through initialize(from), apply(gate), collapse, value, whatever the
\* random sample: Pauli-X takes 0 to 1 and 1 to 0; Pauli-Z 0 to 0 and 1 to
\* 1; controlled-NOT 2 to 3, 3 to 2, 0 to 0, 1 to 1; swap 2 to 1, 0 to 0,
\* 3 to 3; Toffoli 6 to 7, 7 to 6, 0 to 0, 2 to 2; Fredkin 5 to 6, 6 to 5,
\* 0 to 0, 7 to 7.
C16_PermutationGates ==
    \A c \in PermutationGateCases :
        (Len(run) = 2 /\ run[1] = c[2] /\ run[2] = c[1]) => Gives(c[3])

\* initialize(5), apply(fredkin()), collapse(), and value() has returned 6.
C16_Witness ==
    /\ run = <<5, <<"fredkin", 3>>>>
    /\ last = [op |-> "value", panicked |-> FALSE, ret |-> U32(6)]

\* The gate takes the basis state s to the basis state t: column s of its
\* matrix has an amplitude of norm 1 in row t and zero in every other row.
MapsTo(gate, s, t) ==
    \A r \in 0..(gate.matrix.size - 1) :
        IF r = t THEN Complex_norm_sqr(Matrix_get(gate.matrix, r, s)) = Real(1, 1)
        ELSE Matrix_get(gate.matrix, r, s) = Complex_zero

\* C17: gate.permute(p) is a gate of the same width whose matrix has row k
\* of the matrix of `gate` in row p[k], for every k; so where `gate` takes
\* the basis state s to the basis state t, initialize(s), apply of the
\* permuted gate, collapse, value gives p[t], whatever the sample
\* (controlled-NOT permuted by [2, 3, 0, 1] takes 1 to 3).
C17_PermutedGate ==
    Len(run) = 3 =>
        LET gate == GateLib[run[2]]
            permutation == run[3]
            permuted == Gate_permute(gate, permutation)
            n == gate.matrix.size
        IN  /\ last.op = "apply" =>
                  /\ ~permuted.panicked
                  /\ permuted.gate.width = gate.width
                  /\ permuted.gate.matrix.size = n
                  /\ \A k, j \in 0..(n - 1) :
                        Matrix_get(permuted.gate.matrix, permutation[k + 1], j) =
                            Matrix_get(gate.matrix, k, j)
            /\ \A t \in 0..(n - 1) :
                  MapsTo(gate, run[1], t) => Gives(permutation[t + 1])

\* initialize(1), apply(controlled_not().permute(vec![2, 3, 0, 1])),
\* collapse(), and value() has returned 3.
C17_Witness ==
    /\ run = <<1, <<"controlled_not", 2>>, <<2, 3, 0, 1>>>>
    /\ last = [op |-> "value", panicked |-> FALSE, ret |-> U32(3)]

----------------------------------------------------------------------------
(* SpecDeutsch: deutsch_algorithm(f), statement by statement.  `run` is    *)
(* <<f, pc>>: f as <<f(0), f(1)>> and the number of statements done; the   *)
(* gate built by deutsch_gate(f) is kept in the_matrix until it is applied. *)

\* The functions passed to deutsch_algorithm: f(0) and f(1) are any of
\* these values of i32, of which 0 and 1 are the ones deutsch_gate accepts.
DeutschFunctions == [1..2 -> -1..2]

\* A statement of the algorithm on the computer, from position pc.
DeutschStep(pc, op, r) ==
    /\ run[2] = pc
    /\ ~last.panicked
    /\ Returns(op, r)
    /\ run' = <<run[1], pc + 1>>

InitDeutsch ==
    /\ overflow_checks \in BOOLEAN
    /\ LET c == QuantumComputer_new(overflow_checks, 2)
       IN  /\ state = c.state
           /\ width = c.width
           /\ register = c.register
           /\ classical = c.classical
    /\ last = [op |-> "new", panicked |-> FALSE, ret |-> <<>>]
    /\ the_matrix = <<>>
    /\ \E f \in DeutschFunctions : run = <<f, 0>>

\* c.initialize(1)
DeutschInitialize ==
    DeutschStep(0, "initialize", QuantumComputer_initialize(overflow_checks, Self, U32(1)))

\* c.apply(gates::hadamard(2)), the first and the second time
DeutschHadamard ==
    \E pc \in {1, 4} : DeutschStep(pc, "apply", QuantumComputer_apply(Self, hadamard2))

\* deutsch_gate(f), the argument of the second apply
DeutschGate ==
    /\ run[2] = 2
    /\ ~last.panicked
    /\ LET g == deutsch_gate(run[1])
       IN  /\ the_matrix' = IF g.panicked THEN the_matrix ELSE g.gate.matrix
           /\ last' = [op |-> "deutsch_gate", panicked |-> g.panicked, ret |-> <<>>]
    /\ run' = <<run[1], 3>>
    /\ UNCHANGED <<state, width, register, classical, overflow_checks>>

\* c.apply(deutsch_gate(f))
DeutschApply ==
    /\ run[2] = 3
    /\ ~last.panicked
    /\ LET r == QuantumComputer_apply(Self, Gate_new(2, the_matrix))
       IN  /\ state' = r.self.state
           /\ width' = r.self.width
           /\ register' = r.self.register
           /\ classical' = r.self.classical
           /\ last' = [op |-> "apply", panicked |-> r.panicked, ret |-> r.ret]
    /\ the_matrix' = <<>>
    /\ run' = <<run[1], 4>>
    /\ UNCHANGED overflow_checks

\* c.collapse()
DeutschCollapse(sample) ==
    DeutschStep(5, "collapse", QuantumComputer_collapse(overflow_checks, Self, sample))

\* match c.value() { 1 => Constant, 3 => Balanced, _ => panic!("Unknown error!") }
DeutschMatch ==
    LET v == QuantumComputer_value(overflow_checks, Self)
    IN  DeutschStep(6, "deutsch_algorithm",
                    [panicked |-> v.panicked \/ v.ret \notin {U32(1), U32(3)},
                     self |-> v.self,
                     ret |-> IF v.panicked THEN <<>>
                             ELSE IF v.ret = U32(1) THEN "Constant"
                             ELSE IF v.ret = U32(3) THEN "Balanced"
                             ELSE "Unknown error!"])

NextDeutsch ==
    \/ DeutschInitialize
    \/ DeutschHadamard
    \/ DeutschGate
    \/ DeutschApply
    \/ \E sample \in Samples : DeutschCollapse(sample)
    \/ DeutschMatch

SpecDeutsch == InitDeutsch /\ [][NextDeutsch]_vars

\* C18: for f from {0, 1} to {0, 1}, deutsch_algorithm(f) fails at no
\* statement; before collapse the register is such that, whatever the
\* sample, collapse and value give 1 when f(0) = f(1) and 3 when not; and it
\* returns Constant when f(0) = f(1) and Balanced when not, never reaching
\* the panic "Unknown error!".
C18_Deutsch ==
    (run[1][1] \in {0, 1} /\ run[1][2] \in {0, 1}) =>
        LET constant == run[1][1] = run[1][2]
        IN  /\ ~last.panicked
            /\ run[2] = 5 =>
                  \A sample \in Samples :
                      LET c == QuantumComputer_collapse(overflow_checks, Self, sample)
                          v == QuantumComputer_value(overflow_checks, c.self)
                      IN  /\ ~c.panicked /\ ~v.panicked
                          /\ v.ret = IF constant THEN U32(1) ELSE U32(3)
            /\ last.op = "deutsch_algorithm" =>
                  last.ret = IF constant THEN "Constant" ELSE "Balanced"

\* deutsch_algorithm has returned Balanced for f(x) = 1 - x.
C18_Witness ==
    /\ run = <<<<1, 0>>, 7>>
    /\ last = [op |-> "deutsch_algorithm", panicked |-> FALSE, ret |-> "Balanced"]

----------------------------------------------------------------------------
(* Further claims about the QuantumRegister, under SpecReg *)

\* C21: apply(gate) fails when the register is collapsed or the width of
\* the gate is not the width of the register, and then leaves the ket and
\* the collapsed flag as they were; otherwise it succeeds, the new ket is
\* gate.matrix x ket (amplitude i is the sum over k < 2^width of
\* matrix[i][k] * ket[k]) and the collapsed flag stays false.
C21_ApplyFailsOrMultiplies ==
    \A g \in GateIds :
        LET gate == GateLib[g]
            r == QuantumRegister_apply(register, gate)
            n == gate.matrix.size
        IN  IF register.collapsed = TRUE \/ gate.width # register.width
            THEN r.panicked /\ r.register = register
            ELSE /\ ~r.panicked
                 /\ r.register.collapsed = FALSE
                 /\ r.register.width = register.width
                 /\ \A i \in 0..(MAX_SIZE - 1) :
                       r.register.ket.elements[i] =
                           IF i < n
                           THEN ComplexSum([k \in 0..(n - 1) |->
                                               Complex_mul(Matrix_get(gate.matrix, i, k),
                                                           register.ket.elements[k])],
                                           0..(n - 1))
                           ELSE Complex_zero

\* hadamard(2) has been applied to a register of width 2 in a basis state,
\* and a further apply has left it live with amplitudes of 0.5.
C21_Witness ==
    /\ last.op = "apply" /\ ~last.panicked
    /\ register.width = 2 /\ register.collapsed = FALSE
    /\ Complex_norm_sqr(register.ket.elements[3]) = Real(1, 4)

\* C22: a dimension above the capacity is rejected: Matrix::new(size) fails
\* for size > MAX_SIZE; Gate::new(width, matrix) fails unless the size of
\* the matrix is 2^width; and no QuantumRegister is constructed whose ket
\* has 2^width > MAX_SIZE elements.
C22_OverCapacityRejected ==
    /\ \A size \in 0..(2 * MAX_SIZE) : size > MAX_SIZE => ~Matrix_new_asserts(size)
    /\ \A g \in GateIds : \A w \in 0..OverWidth :
          Gate_new_asserts(w, GateLib[g].matrix) <=> GateLib[g].matrix.size = 2^w
    /\ last.op = "new" => Ket_size(register.width) <= MAX_SIZE

----------------------------------------------------------------------------
(* Further claims about the QuantumComputer, under Spec *)

\* Values of u32 that are no state of a register of width w: 2^w, the
\* next one, 2^31 and the largest.
OutOfRange(w) ==
    {U32(Ket_size(w)), U32(Ket_size(w) + 1), <<Limb \div 2, 0>>, <<Limb - 1, Limb - 1>>}

\* C23: in Initializing, initialize(value) with value >= 2^width fails and
\* leaves the computer as it was: in Initializing, with the same quantum and
\* classical registers; and initialize with any value < 2^width succeeds
\* afterwards and moves it to Running.
C23_FailedInitializeChangesNothing ==
    state = "Initializing" =>
        \A value \in OutOfRange(width) :
            LET r == QuantumComputer_initialize(overflow_checks, Self, value)
            IN  /\ r.panicked
                /\ r.self = Self
                /\ \A valid \in 0..(Ket_size(width) - 1) :
                      LET again == QuantumComputer_initialize(overflow_checks, r.self, U32(valid))
                      IN  ~again.panicked /\ again.self.state = "Running"

\* initialize(8) has failed on a computer of width 3 that went through a
\* run before and keeps the registers of that run.
C23_Witness ==
    /\ last.op = "initialize" /\ last.panicked
    /\ state = "Initializing" /\ width = 3
    /\ register.collapsed = TRUE

\* C24: whatever happened on the computer before, a successful
\* initialize(v) leaves it Running with the register a new computer of the
\* width has after initialize(v): not collapsed, the ket the basis vector of
\* v; so probabilities() and, for every sample, collapse() and value() give
\* what they give on the new computer: value v.
C24_RunsAreIndependent ==
    (last.op = "initialize" /\ ~last.panicked) =>
        LET v == run[1]
            fresh == QuantumComputer_initialize(overflow_checks,
                                                QuantumComputer_new(overflow_checks, width),
                                                U32(v)).self
        IN  /\ state = "Running"
            /\ register = fresh.register
            /\ register.collapsed = FALSE
            /\ IsBasisKet(register.ket, v)
            /\ QuantumComputer_probabilities(Self).ret = QuantumComputer_probabilities(fresh).ret
            /\ \A sample \in Samples :
                  LET c == QuantumComputer_collapse(overflow_checks, Self, sample)
                      value == QuantumComputer_value(overflow_checks, c.self)
                  IN  /\ c.self = QuantumComputer_collapse(overflow_checks, fresh, sample).self
                      /\ ~c.panicked /\ ~value.panicked /\ value.ret = U32(v)

\* initialize(2) has succeeded on a computer of width 3 whose earlier run
\* collapsed to 5.
C24_Witness ==
    /\ last.op = "initialize" /\ ~last.panicked
    /\ width = 3 /\ run = <<2, 0>>
    /\ ClassicalRegister_state(overflow_checks, classical).value = U32(5)

\* C25: in every reachable state the state tag agrees with the collapsed
\* flag of the register: in Running the register is not collapsed; in
\* Collapsed it is, and the classical register has the width of the
\* computer and a state below 2^width.
C25_TagAgreesWithFlag ==
    /\ state = "Running" => register.collapsed = FALSE
    /\ state = "Collapsed" =>
          /\ register.collapsed = TRUE
          /\ ClassicalRegister_width(classical) = width
          /\ ~ClassicalRegister_state(overflow_checks, classical).panicked
          /\ U32_lt(ClassicalRegister_state(overflow_checks, classical).value, U32(Ket_size(width)))

\* A computer of width 3 is Collapsed, with the state 6 in its classical
\* register.
C25_Witness ==
    /\ state = "Collapsed" /\ width = 3
    /\ last.op = "collapse" /\ ~last.panicked
    /\ ClassicalRegister_state(overflow_checks, classical).value = U32(6)

----------------------------------------------------------------------------
(* The buffer of the ket, under SpecReg *)

\* C26: every amplitude of the register at an index of the buffer from
\* 2^width on is zero, so the check of matrix x vector on the tail of the
\* vector does not fail for a gate of the width of the register, and apply
\* with such a gate fails on a collapsed register only.
C26_TailIsZero ==
    /\ \A n \in 0..(MAX_SIZE - 1) :
          n >= Ket_size(register.width) => register.ket.elements[n] = Complex_zero
    /\ \A g \in GatesOfWidth(register.width) :
          /\ ~Matrix_mul_vector(GateLib[g].matrix, register.ket.elements).panicked
          /\ QuantumRegister_apply(register, GateLib[g]).panicked <=> register.collapsed = TRUE

\* pauli_y has been applied to a register of width 1 in state 0: the
\* amplitudes are 0 and i, and the 30 places after them are zero.
C26_Witness ==
    /\ last.op = "apply" /\ ~last.panicked
    /\ register.width = 1
    /\ register.ket.elements[1] = Complex_i

----------------------------------------------------------------------------
(* SpecPermute: a QuantumRegister built from a classical state, to which   *)
(* gates that permute the basis are applied, any number of them, each a    *)
(* library gate or one permuted with Gate::permute.  `run` is the gate of  *)
(* the last apply: <<g>> or <<g, permutation>>.                            *)

\* The library gates of width w whose matrix is a permutation matrix.
PermutationGates(w) ==
    {g \in GatesOfWidth(w) :
        g[1] \in {"identity", "pauli_x", "controlled_not", "swap", "toffoli", "fredkin"}}

\* The permutations passed to Gate::permute for a matrix of size n: the
\* rotation by one place, the rotation by half the size ([2, 3, 0, 1] for
\* n = 4) and the reversal.
RowPermutations(n) ==
    {[k \in 1..n |-> (k - 1 + c) % n] : c \in {1, n \div 2}} \cup
    {[k \in 1..n |-> n - k]}

\* let mut r = QuantumRegister::new(w, &ClassicalRegister::from_state(w, s))
InitPermute ==
    /\ overflow_checks \in BOOLEAN
    /\ \E w \in 0..MaxGateWidth :
          \E s \in 0..(Ket_size(w) - 1) :
              /\ width = w
              /\ register = QuantumRegister_new(
                                overflow_checks, w,
                                ClassicalRegister_from_state(overflow_checks, w, U32(s)).bits).register
    /\ classical = <<>>
    /\ state = "none"
    /\ last = [op |-> "new", panicked |-> FALSE, ret |-> <<>>]
    /\ the_matrix = <<>>
    /\ run = <<>>

\* r.apply(gate), for a gate of the library
PermuteApply(g) ==
    LET r == QuantumRegister_apply(register, GateLib[g])
    IN  /\ register' = r.register
        /\ last' = [op |-> "apply", panicked |-> r.panicked, ret |-> <<>>]
        /\ run' = <<g>>
        /\ UNCHANGED <<state, width, classical, overflow_checks, the_matrix>>

\* r.apply(gate.permute(permutation))
PermuteApplyPermuted(g, permutation) ==
    LET permuted == Gate_permute(GateLib[g], permutation)
        r == IF permuted.panicked THEN [panicked |-> TRUE, register |-> register]
             ELSE QuantumRegister_apply(register, permuted.gate)
    IN  /\ register' = r.register
        /\ last' = [op |-> "apply", panicked |-> r.panicked, ret |-> <<>>]
        /\ run' = <<g, permutation>>
        /\ UNCHANGED <<state, width, classical, overflow_checks, the_matrix>>

NextPermute ==
    \/ \E g \in PermutationGates(width) : PermuteApply(g)
    \/ \E g \in PermutationGates(width) :
          \E permutation \in RowPermutations(Ket_size(width)) : PermuteApplyPermuted(g, permutation)

SpecPermute == InitPermute /\ [][NextPermute]_vars

\* C27: after any number of applies of library permutation gates of the
\* width of the register (identity, Pauli-X, controlled-NOT, swap, Toffoli,
\* Fredkin) and of their row permutations, to a register built from a
\* classical state, no apply has failed and the ket is valid (the squared
\* magnitudes sum to 1) and classical: one amplitude is 1, all others 0.
C27_PermutationGatesKeepBasis ==
    /\ ~last.panicked
    /\ register.collapsed = FALSE
    /\ Ket_is_valid(register.ket)
    /\ Ket_is_classical(register.ket)
    /\ \E v \in 0..(Ket_size(width) - 1) : IsBasisKet(register.ket, v)

\* A register of width 3 is in the basis state 7 after an apply of Toffoli
\* with its rows rotated by one.
C27_Witness ==
    /\ last.op = "apply" /\ ~last.panicked
    /\ run = <<<<"toffoli", 3>>, <<1, 2, 3, 4, 5, 6, 7, 0>>>>
    /\ IsBasisKet(register.ket, 7)

----------------------------------------------------------------------------
(* SpecPow: z.pow(n) called once, for a base z and an exponent n: `run` is  *)
(* <<z, n>>, n a u32 in limbs.                                              *)

\* Exponents tried with every base: 0..MaxExponent.
MaxExponent == 12

\* The bases whose powers stay in {0, 1, -1, i, -i}.
UnitBases ==
    {Complex_zero, Complex_one, Complex_neg(Complex_one), Complex_i, Complex_neg(Complex_i)}

\* 1 + i and 1 + 2i, whose powers grow: tried with the small exponents.
GrowingBases == {Complex_new(Real(1, 1), Real(1, 1)), Complex_new(Real(1, 1), Real(2, 1))}

\* The exponents of the whole range of u32 tried with the unit bases: the
\* powers of two, their neighbours, sums of two powers, and the largest.
LargeExponents ==
    {U32_pow2(k).value : k \in 0..(U32_BITS - 1)} \cup
    {U32_add(U32_pow2(k).value, <<0, 1>>).value : k \in 0..(U32_BITS - 1)} \cup
    {U32_sub(U32_pow2(k).value, <<0, 1>>) : k \in 0..(U32_BITS - 1)} \cup
    {U32_add(U32_pow2(k).value, U32_pow2(j).value).value :
        k \in {U32_BITS - 2, U32_BITS - 1}, j \in 0..(U32_BITS - 3)} \cup
    {<<Limb - 1, Limb - 1>>}

InitPow ==
    /\ \E z \in UnitBases \cup GrowingBases :
          \E n \in {U32(k) : k \in 0..MaxExponent} \cup
                   (IF z \in UnitBases THEN LargeExponents ELSE {}) :
              run = <<z, n>>
    /\ last = [op |-> "new", panicked |-> FALSE, ret |-> <<>>]
    /\ state = "none"
    /\ width = 0
    /\ register = <<>>
    /\ classical = <<>>
    /\ the_matrix = <<>>
    /\ overflow_checks \in BOOLEAN

\* z.pow(n)
Pow ==
    /\ last.op = "new"
    /\ LET r == Complex_pow(run[1], run[2])
       IN  last' = [op |-> "pow", panicked |-> r.panicked,
                    ret |-> IF r.panicked THEN <<>> ELSE r.value]
    /\ UNCHANGED <<state, width, register, classical, overflow_checks, the_matrix, run>>

NextPow == Pow

SpecPow == InitPow /\ [][NextPow]_vars

\* The product of k factors z.
RECURSIVE NFoldProduct(_, _)
NFoldProduct(z, k) == IF k = 0 THEN Complex_one ELSE Complex_mul(z, NFoldProduct(z, k - 1))

\* An exponent below 8 with the same power as n, for a unit base: n itself
\* when n < 8, and else 4 + n mod 4 (z^4 is 1 for a unit and 0 for 0).
ReducedExponent(n) == IF n[1] = 0 /\ n[2] < 8 THEN n[2] ELSE 4 + (n[2] % 4)

\* C28: pow(n) fails for no n of u32 and returns the product of n factors
\* z; pow(0) is one.
C28_PowIsTotal ==
    last.op = "pow" =>
        /\ ~last.panicked
        /\ last.ret = IF run[1] \in UnitBases
                      THEN NFoldProduct(run[1], ReducedExponent(run[2]))
                      ELSE NFoldProduct(run[1], run[2][2])

----------------------------------------------------------------------------
(* SpecEntries: the entries of a Matrix read, written and compared.  To the *)
(* matrix m built by new, identity or m_real!, m.get(i, j) or               *)
(* m.set(i, j, value) is applied, with indices inside the matrix, next to   *)
(* it and around MAX_SIZE; m, as built or after the set, is compared with   *)
(* a matrix by == and approx_eq.  `run` holds the arguments of the call.    *)

\* The indices passed to get and set for a matrix of size n.
EntryIndices(n) == (0..n) \cup {MAX_SIZE - 1, MAX_SIZE, MAX_SIZE + 1}

InitEntries ==
    /\ the_matrix \in Operands
    /\ run = <<>>
    /\ last = [op |-> "new", panicked |-> FALSE, ret |-> <<>>]
    /\ state = "none"
    /\ width = 0
    /\ register = <<>>
    /\ classical = <<>>
    /\ overflow_checks = FALSE

\* m.get(i, j)
EntriesGet(i, j) ==
    /\ last.op = "new"
    /\ last' = IF Matrix_index_panics(i, j)
               THEN [op |-> "get", panicked |-> TRUE, ret |-> <<>>]
               ELSE [op |-> "get", panicked |-> FALSE, ret |-> Matrix_get(the_matrix, i, j)]
    /\ run' = <<i, j>>
    /\ UNCHANGED <<state, width, register, classical, overflow_checks, the_matrix>>

\* m.set(i, j, value)
EntriesSet(i, j) ==
    /\ last.op = "new"
    /\ last' = [op |-> "set", panicked |-> Matrix_index_panics(i, j), ret |-> <<>>]
    /\ the_matrix' = IF Matrix_index_panics(i, j) THEN the_matrix
                     ELSE Matrix_set(the_matrix, i, j, SetValue)
    /\ run' = <<i, j>>
    /\ UNCHANGED <<state, width, register, classical, overflow_checks>>

\* m == other
EntriesEq(other) ==
    /\ last.op \in {"new", "set"}
    /\ ~last.panicked
    /\ LET r == Matrix_eq(the_matrix, other)
       IN  last' = [op |-> "eq", panicked |-> r.panicked,
                    ret |-> IF r.panicked THEN <<>> ELSE r.ret]
    /\ run' = <<other>>
    /\ UNCHANGED <<state, width, register, classical, overflow_checks, the_matrix>>

\* m.approx_eq(&other)
EntriesApproxEq(other) ==
    /\ last.op \in {"new", "set"}
    /\ ~last.panicked
    /\ LET r == Matrix_approx_eq(the_matrix, other)
       IN  last' = [op |-> "approx_eq", panicked |-> r.panicked,
                    ret |-> IF r.panicked THEN <<>> ELSE r.ret]
    /\ run' = <<other>>
    /\ UNCHANGED <<state, width, register, classical, overflow_checks, the_matrix>>

NextEntries ==
    \/ \E i, j \in EntryIndices(the_matrix.size) : EntriesGet(i, j)
    \/ \E i, j \in EntryIndices(the_matrix.size) : EntriesSet(i, j)
    \/ \E other \in Operands : EntriesEq(other)
    \/ \E other \in Operands : EntriesApproxEq(other)

SpecEntries == InitEntries /\ [][NextEntries]_vars

\* The entry in row i and column j of the buffer of m, for i, j < MAX_SIZE.
EntryAt(m, i, j) == m.elements[i * MAX_SIZE + j]

\* C29: get(i, j) and set(i, j, v) with i >= MAX_SIZE or j >= MAX_SIZE fail
\* and leave the matrix as it was; get(i, j) with i, j < MAX_SIZE returns
\* the entry (i, j), and set(i, j, v) with i, j < MAX_SIZE makes the entry
\* (i, j) v and changes no other entry.
C29_GetSetAreBoundsChecked ==
    [][last'.op \in {"get", "set"} =>
          LET i == run'[1]
              j == run'[2]
          IN  IF i >= MAX_SIZE \/ j >= MAX_SIZE
              THEN last'.panicked /\ the_matrix' = the_matrix
              ELSE /\ ~last'.panicked
                   /\ the_matrix'.size = the_matrix.size
                   /\ last'.op = "get" =>
                         (last'.ret = EntryAt(the_matrix, i, j) /\ the_matrix' = the_matrix)
                   /\ last'.op = "set" =>
                         \A k, l \in 0..(MAX_SIZE - 1) :
                             EntryAt(the_matrix', k, l) =
                                 IF k = i /\ l = j THEN SetValue
                                 ELSE EntryAt(the_matrix, k, l)]_vars

\* Whether a and b have the same entry at each (i, j) with i, j < n.
SameEntriesWithin(a, b, n) ==
    \A i, j \in 0..(n - 1) : EntryAt(a, i, j) = EntryAt(b, i, j)

\* C30: m == other fails when the sizes differ and else tells whether the
\* whole buffers are equal; m.approx_eq(&other) never fails, is false when
\* the sizes differ and else tells whether the entries with both indices
\* below the size are equal.
C30_EqAndApproxEq ==
    /\ last.op = "eq" =>
          IF the_matrix.size # run[1].size THEN last.panicked
          ELSE /\ ~last.panicked
               /\ last.ret = SameEntriesWithin(the_matrix, run[1], MAX_SIZE)
    /\ last.op = "approx_eq" =>
          /\ ~last.panicked
          /\ last.ret = (/\ the_matrix.size = run[1].size
                         /\ SameEntriesWithin(the_matrix, run[1], the_matrix.size))

\* approx_eq has returned true for two matrices of one size that differ
\* outside it, and == has failed for two matrices of different sizes.
C30_Witness ==
    /\ last.op = "approx_eq"
    /\ last.ret = TRUE
    /\ the_matrix.size = run[1].size
    /\ the_matrix.size > 0
    /\ ~SameEntriesWithin(the_matrix, run[1], MAX_SIZE)

====
